---- MODULE Spec2Model ----
(***************************************************************************)
(* Connection-adapter framework of mcp-server: the adapter lifecycle       *)
(* (adapters/base.py, adapters/mqtt.py, adapters/rest.py) and the          *)
(* connection registry (core/registry.py), as a state machine.             *)
(*                                                                         *)
(* Scheduling is asyncio's: one thread, cooperative.  An action is the     *)
(* code a task runs between two suspension points (an await that yields).  *)
(***************************************************************************)
EXTENDS Integers, Sequences, FiniteSets, TLC

VARIABLES
    adapters,    \* every adapter instance constructed so far, by instance number
    registry,    \* AdapterRegistry._adapters: connection id -> instance number
    lock,        \* AdapterRegistry._lock: [holder, waiters]
    callers,     \* the tasks calling into the registry or into an adapter
    bg,          \* background tasks made by asyncio.create_task, by task number
    uuids,       \* how many uuid4() values have been drawn
    clock,       \* seconds datetime.now() has advanced past its first reading
    delivered,   \* every inbound message handled so far: <<payload, time stamped>>
    rx           \* the receive / error path in flight, and every handler call made

vars == <<adapters, registry, lock, callers, bg, uuids, clock, delivered, rx>>

\* ------------------------------------------------------------------ bounds

\* Instances constructed in one run of the registry specification.
MaxAdapters == 2
\* Largest retry_max_attempts a configuration carries.
MaxAttempts == 3
\* Failures counted on one adapter before no further connect is started.
MaxReconnects == 3
\* Receive tasks started on one adapter in one run.
MaxTasks == 2
\* Sends that reach the transport in one run.
MaxSends == 1
\* inbound messages in the lifetime of the one adapter, at most
MaxInbound == 2

\* errors a task hands to _handle_error itself, at most
MaxErrors == 2

\* inbound messages while handlers are registered, at most
MaxHandled == 3

\* Sample-buffer capacity (BaseAdapter._sample_buffer_size; the code fixes it
\* at 1000, the model takes a small capacity so that eviction happens).
SampleBufferSize == 3
\* Inbound messages in one run of the sample specification.
MaxMessages == 5

\* ------------------------------------------------------------- small sets

Callers == {"c1", "c2"}
NoCaller == "none"
None == "None"
\* caller-supplied connection ids
Ids == {"x"}
\* faults a transport handshake or write raises (str(e))
Faults == {"refused", "timeout"}

Min(a, b) == IF a <= b THEN a ELSE b
Max(a, b) == IF a >= b THEN a ELSE b

\* ------------------------------------------------- floats, as exact ratios

\* A float is modelled as a ratio <<numerator, denominator>>, denominator > 0.
Ratio(n, d) == <<n, d>>
RatLeq(a, b) == a[1] * b[2] <= b[1] * a[2]
RatEq(a, b) == a[1] * b[2] = b[1] * a[2]
RatMul(a, b) == <<a[1] * b[1], a[2] * b[2]>>
\* Python's min(a, b): a unless b is smaller
RatMin(a, b) == IF RatLeq(a, b) THEN a ELSE b

RECURSIVE IntPow(_, _)
IntPow(b, n) == IF n <= 0 THEN 1 ELSE b * IntPow(b, n - 1)
\* factor ** attempt
RatPow(a, n) == <<IntPow(a[1], n), IntPow(a[2], n)>>

\* ------------------------------------------------------------------ status

DISCONNECTED == "disconnected"
CONNECTING == "connecting"
CONNECTED == "connected"
ERROR == "error"
RECONNECTING == "reconnecting"
ConnectionStatus == {DISCONNECTED, CONNECTING, CONNECTED, ERROR, RECONNECTING}

\* ConnectionMetrics()
ConnectionMetrics ==
    [connected_at |-> None, messages_sent |-> 0, messages_received |-> 0,
     bytes_sent |-> 0, bytes_received |-> 0, last_activity |-> None,
     errors |-> 0, reconnect_attempts |-> 0]

\* AdapterConfig and its two subclasses: the fields the core reads.
AdapterConfig(name, attempts, factor, maxDelay, websocket) ==
    [name |-> name, retry_max_attempts |-> attempts,
     retry_backoff_factor |-> factor, retry_max_delay |-> maxDelay,
     use_websocket |-> websocket]

\* stands for "no configuration object" where a record is needed
NoConfig == AdapterConfig(None, 0, Ratio(1, 1), 0, FALSE)

\* BaseAdapter.__init__ (and the subclasses' __init__, which add transport
\* handles only): the state of a freshly constructed adapter.
NewAdapter(config) ==
    [config |-> config,
     status |-> DISCONNECTED,
     metrics |-> ConnectionMetrics,
     connection_id |-> None,
     sample_buffer |-> <<>>,
     status_message |-> "Connection not configured.",
     retry_delay |-> Ratio(1, 1),
     running |-> FALSE,
     tasks |-> {},
     \* the callbacks of set_message_handler / set_error_handler
     on_message |-> None,
     on_error |-> None,
     \* the transport session (gmqtt client / aiohttp session) is connected
     session_open |-> FALSE,
     \* the MQTT client lost its broker and is reconnecting on its own
     link_lost |-> FALSE]

\* ----------------------------------------------------------- small helpers

EmptyMap == [k \in {} |-> 0]
Put(m, k, v) == [x \in (DOMAIN m) \cup {k} |-> IF x = k THEN v ELSE m[x]]
Del(m, k) == [x \in (DOMAIN m) \ {k} |-> m[x]]

\* str(uuid4()): no two draws are equal.  The registry's draw for the
\* instance it is about to construct is named after that instance ("r", i),
\* an adapter's draw after the count of adapter draws ("a", n).
Uuid4(who, n) == "uuid-" \o who \o ToString(n)

\* what a finished call handed to its caller
NoResult == [kind |-> "none", id |-> None, adapter |-> 0, value |-> None]
Returned(id, adapter, value) ==
    [kind |-> "return", id |-> id, adapter |-> adapter, value |-> value]
Raised(exc, msg) == [kind |-> "raise", id |-> None, adapter |-> 0, value |-> exc \o ": " \o msg]

\* the receive / error path when no inbound message and no error is being
\* handled; calls lists every invocation of a registered handler so far,
\* as <<handler, adapter, argument>>
IdleRx ==
    [pc |-> "idle", adapter |-> 0, data |-> <<>>, error |-> None, calls |-> <<>>,
     \* how many exceptions of the error handler _handle_error has swallowed
     swallowed |-> 0,
     \* how the latest receive / error procedure ended: "return" or "raise"
     outcome |-> "none"]

\* a calling task that is not inside any call
IdleCaller ==
    [pc |-> "idle", op |-> None, id |-> None, force |-> FALSE, adapter |-> 0,
     type |-> None, config_ok |-> TRUE, config |-> NoConfig,
     attempt |-> 0, nbytes |-> 0, n |-> 0, result |-> NoResult,
     \* history of the caller's latest retry-executor call: invocations of
     \* the operation, delays slept, faults it raised, and the adapter's
     \* reconnect_attempts when the executor was entered
     invocations |-> 0, slept |-> <<>>, faults |-> <<>>, reconnects0 |-> 0,
     \* registry map when the call's guarded body began
     snapshot |-> EmptyMap,
     \* the dict a list_connections call returned
     listing |-> EmptyMap,
     \* when the call began: adapter instances constructed so far, and
     \* create_connection calls in flight
     born |-> 0, creates0 |-> 0]

\* ------------------------------------------------- retry/backoff executor

\* BaseAdapter._retry_with_backoff, `while attempt < retry_max_attempts`
RetryLoopTest(a, attempt) == attempt < a.config.retry_max_attempts

\* a give-up test that allows one attempt too many
RetryExhaustedLate(a, attempt) == attempt > a.config.retry_max_attempts

\* BaseAdapter._retry_with_backoff, `if attempt >= retry_max_attempts`, with
\* attempt already incremented for the failure being handled
RetryExhausted(a, attempt) == attempt >= a.config.retry_max_attempts

\* the backoff as if each delay compounded the previous one
BackoffDelayCompounding(a, attempt) ==
    RatMin(RatMul(a.retry_delay, RatPow(a.config.retry_backoff_factor, attempt)),
           Ratio(a.config.retry_max_delay, 1))

\* BaseAdapter._retry_with_backoff: min(delay * factor ** attempt, max_delay),
\* with the local `delay` that stays 1.0
BackoffDelay(a, attempt) ==
    RatMin(RatMul(Ratio(1, 1), RatPow(a.config.retry_backoff_factor, attempt)),
           Ratio(a.config.retry_max_delay, 1))

\* the failure branch without the reconnect_attempts increment
RetryFailureUncounted(a, attempt, e) ==
    IF RetryExhausted(a, attempt + 1)
    THEN [a EXCEPT !.status = ERROR,
                   !.status_message = "Max retry attempts reached: " \o e]
    ELSE [a EXCEPT !.retry_delay = BackoffDelay(a, attempt + 1),
                   !.status = RECONNECTING]

\* BaseAdapter._retry_with_backoff, the except branch: the adapter after the
\* operation failed with e when `attempt` failures had been counted before
RetryFailure(a, attempt, e) ==
    LET a1 == [a EXCEPT !.metrics.reconnect_attempts = @ + 1]
    IN  IF RetryExhausted(a1, attempt + 1)
        THEN [a1 EXCEPT !.status = ERROR,
                        !.status_message = "Max retry attempts reached: " \o e]
        ELSE [a1 EXCEPT !.retry_delay = BackoffDelay(a1, attempt + 1),
                        !.status = RECONNECTING]

\* ------------------------------------------------------- adapter: connect

\* datetime.isoformat() of the instant t whole seconds after
\* 2026-01-01T00:00:00 (t < 60; microsecond 0, so no fraction is printed)
Isoformat(t) ==
    "2026-01-01T00:00:" \o (IF t < 10 THEN "0" \o ToString(t) ELSE ToString(t))

\* MQTTAdapter._on_connect(rc): the broker's CONNACK callback
OnConnect(a, rc) ==
    IF rc = 0
    THEN [a EXCEPT !.status = CONNECTED,
                   !.status_message = "Connected to MQTT broker",
                   !.metrics.connected_at = "float"]
    ELSE [a EXCEPT !.status = ERROR,
                   !.status_message = "MQTT connection failed with code " \o ToString(rc)]

\* a connect that starts from fresh metrics
ConnectBeginFreshMetrics(a, n) ==
    [a EXCEPT !.status = CONNECTING, !.connection_id = Uuid4("a", n),
              !.link_lost = FALSE, !.metrics = ConnectionMetrics]

\* MQTTAdapter.connect / RestAdapter.connect up to the retry executor:
\* status CONNECTING and a fresh _connection_id (uuid number n)
ConnectBegin(a, n) ==
    [a EXCEPT !.status = CONNECTING, !.connection_id = Uuid4("a", n),
              \* MQTTAdapter.connect replaces self._client by a new client
              !.link_lost = FALSE]

\* a handshake whose success never reaches the status
HandshakeOkUnreported(a) == [a EXCEPT !.session_open = TRUE]

\* the handshake operation handed to the executor returned normally:
\* _connect_mqtt returns once the client is connected, which gmqtt reports
\* through _on_connect(rc = 0); _connect_websocket / _test_connection set
\* nothing on the adapter
HandshakeOk(a) ==
    IF a.config.name = "mqtt"
    THEN [OnConnect(a, 0) EXCEPT !.session_open = TRUE]
    ELSE [a EXCEPT !.session_open = TRUE]

\* connect() after the executor returned: RestAdapter sets CONNECTED itself,
\* both start the receive loop as background task t
ConnectReturn(a, t) ==
    LET a1 == IF a.config.name = "rest"
              THEN [a EXCEPT !.status = CONNECTED,
                             !.metrics.connected_at = Isoformat(clock),
                             !.status_message = "Connected"]
              ELSE a
    IN  [a1 EXCEPT !.running = TRUE, !.tasks = @ \cup {t}]

\* connect()'s except branch: status ERROR, the fault in the message
\* (RestAdapter also closes its session), then re-raise
ConnectRaise(a, e) ==
    [a EXCEPT !.status = ERROR,
              !.status_message = "Failed to connect: " \o e,
              !.session_open = FALSE]

\* asyncio.create_task(self._receive_loop()) for adapter i
NewTask(i) == [adapter |-> i, state |-> "running"]

\* ---------------------------------------------------------- registry lock

\* a lock that hands itself to the first in line while it is held
LockAvailableWhileHeld(c) == lock.waiters # <<>> /\ Head(lock.waiters) = c

\* asyncio.Lock.acquire, as `async with self._lock` runs it: the lock goes
\* to the task that is first in line, once no task holds it
LockAvailable(c) ==
    lock.holder = NoCaller /\ lock.waiters # <<>> /\ Head(lock.waiters) = c
Released(w) == [holder |-> NoCaller, waiters |-> w]
HeldBy(c, w) == [holder |-> c, waiters |-> w]

\* AdapterRegistry.ADAPTER_TYPES (CONFIG_TYPES has the same keys)
ADAPTER_TYPES == {"mqtt", "rest"}

\* the caller record when a call ends: back to idle; which operation it
\* was (and its force argument), its outcome and the executor's history
\* are kept
Finish(cr, res) ==
    [IdleCaller EXCEPT !.result = res, !.op = cr.op, !.force = cr.force,
                       !.invocations = cr.invocations, !.slept = cr.slept,
                       !.faults = cr.faults, !.reconnects0 = cr.reconnects0]

\* ---------------------------------- the end of connect(), for every caller

\* a create that returns its instance without registering it
ExecutorReturnedUnregistered(c, cr, ads, i, a, v, w) ==
    IF cr.op = "retry"
    THEN /\ adapters' = [ads EXCEPT ![i] = a]
         /\ callers' = [callers EXCEPT ![c] = Finish(cr, Returned(None, i, v))]
         /\ UNCHANGED <<registry, lock, bg>>
    ELSE /\ adapters' = [ads EXCEPT ![i] = ConnectReturn(a, Len(bg) + 1)]
         /\ bg' = Append(bg, NewTask(i))
         /\ lock' = IF cr.op = "create" THEN Released(w) ELSE lock
         /\ callers' = [callers EXCEPT
                          ![c] = Finish(cr, Returned(cr.id, i,
                                            IF cr.op = "create" THEN "created" ELSE None))]
         /\ UNCHANGED registry

\* The retry executor has returned normally (value v) inside the call of
\* caller c, whose adapter i is now a; ads is the instance table, w the
\* lock's wait queue.  Direct executor call: hand v back.  connect():
\* ConnectReturn and the new receive task.  create_connection: also
\* register the id, release the lock, return (id, adapter).
ExecutorReturned(c, cr, ads, i, a, v, w) ==
    IF cr.op = "retry"
    THEN /\ adapters' = [ads EXCEPT ![i] = a]
         /\ callers' = [callers EXCEPT ![c] = Finish(cr, Returned(None, i, v))]
         /\ UNCHANGED <<registry, lock, bg>>
    ELSE LET t == Len(bg) + 1
         IN  /\ adapters' = [ads EXCEPT ![i] = ConnectReturn(a, t)]
             /\ bg' = Append(bg, NewTask(i))
             /\ IF cr.op = "create"
                THEN /\ registry' = Put(registry, cr.id, i)
                     /\ lock' = Released(w)
                     /\ callers' = [callers EXCEPT
                                      ![c] = Finish(cr, Returned(cr.id, i, "created"))]
                ELSE /\ callers' = [callers EXCEPT
                                      ![c] = Finish(cr, Returned(None, i, None))]
                     /\ UNCHANGED <<registry, lock>>

\* a failure path of create_connection that leaves without releasing the
\* lock
ExecutorRaisedHolding(c, cr, ads, i, a, e, w) ==
    /\ callers' = [callers EXCEPT
                     ![c] = Finish(cr, [Raised("ConnectionError", e) EXCEPT !.id = cr.id])]
    /\ adapters' = [ads EXCEPT ![i] = IF cr.op = "retry" THEN a
                                      ELSE ConnectRaise(a, e)]
    /\ lock' = IF cr.op = "create" THEN HeldBy(c, w) ELSE lock
    /\ UNCHANGED <<registry, bg>>

\* the failure path of a create that registers the instance before it
\* knows whether connect succeeded
ExecutorRaisedRegistered(c, cr, ads, i, a, e, w) ==
    /\ callers' = [callers EXCEPT
                     ![c] = Finish(cr, [Raised("ConnectionError", e) EXCEPT !.id = cr.id])]
    /\ adapters' = [ads EXCEPT ![i] = IF cr.op = "retry" THEN a
                                      ELSE ConnectRaise(a, e)]
    /\ lock' = IF cr.op = "create" THEN Released(w) ELSE lock
    /\ registry' = IF cr.op = "create" THEN Put(registry, cr.id, i) ELSE registry
    /\ UNCHANGED bg

\* The retry executor has raised e (the adapter is already a, after
\* RetryFailure).  connect() runs its except branch and re-raises;
\* create_connection logs, re-raises and releases the lock on the way out.
\* (The outcome records the id the call was for.)
ExecutorRaised(c, cr, ads, i, a, e, w) ==
    /\ callers' = [callers EXCEPT
                     ![c] = Finish(cr, [Raised("ConnectionError", e) EXCEPT !.id = cr.id])]
    /\ adapters' = [ads EXCEPT ![i] = IF cr.op = "retry" THEN a
                                      ELSE ConnectRaise(a, e)]
    /\ lock' = IF cr.op = "create" THEN Released(w) ELSE lock
    /\ UNCHANGED <<registry, bg>>

\* an executor entry that registers the instance of a create before the
\* handshake has been awaited
ExecutorCallRegistering(c, cr, ads, i, a1, w) ==
    LET cr1 == [cr EXCEPT !.adapter = i, !.attempt = 0, !.invocations = 0,
                          !.slept = <<>>, !.faults = <<>>,
                          !.reconnects0 = a1.metrics.reconnect_attempts]
    IN  IF RetryLoopTest(a1, 0)
        THEN /\ adapters' = [ads EXCEPT ![i] = a1]
             /\ callers' = [callers EXCEPT ![c] = [cr1 EXCEPT !.pc = "handshake"]]
             /\ lock' = IF cr.op = "create" THEN HeldBy(c, w) ELSE lock
             /\ registry' = IF cr.op = "create" THEN Put(registry, cr.id, i) ELSE registry
             /\ UNCHANGED bg
        ELSE ExecutorReturned(c, cr1, ads, i, a1, None, w)

\* _retry_with_backoff from its first line to its first await, called by
\* caller c on adapter a1 (instance i of table ads): attempt = 0, then the
\* loop test; a loop that is never entered returns None at once
ExecutorCall(c, cr, ads, i, a1, w) ==
    LET cr1 == [cr EXCEPT !.adapter = i, !.attempt = 0, !.invocations = 0,
                          !.slept = <<>>, !.faults = <<>>,
                          !.reconnects0 = a1.metrics.reconnect_attempts]
    IN  IF RetryLoopTest(a1, 0)
        THEN /\ adapters' = [ads EXCEPT ![i] = a1]
             /\ callers' = [callers EXCEPT ![c] = [cr1 EXCEPT !.pc = "handshake"]]
             /\ lock' = IF cr.op = "create" THEN HeldBy(c, w) ELSE lock
             /\ UNCHANGED <<registry, bg>>
        ELSE ExecutorReturned(c, cr1, ads, i, a1, None, w)

\* connect() from its first line to the executor's first await, on adapter
\* a0 (instance i of table ads), drawing uuid number n
ConnectCall(c, cr, ads, i, a0, n, w) ==
    /\ uuids' = n
    /\ ExecutorCall(c, cr, ads, i, ConnectBegin(a0, n), w)

\* -------------------------------------- AdapterRegistry.create_connection

\* a create that never takes the resume branch
IsResumeNever(id) == FALSE

\* a resume branch that is taken for generated ids only
IsResumeUnlessSupplied(id) == id # None /\ id # "" /\ id \in DOMAIN registry /\ id \notin Ids

\* create_connection, `if connection_id and connection_id in self._adapters`
IsResume(id) == id # None /\ id # "" /\ id \in DOMAIN registry

\* a type check that lets every adapter type through
IsKnownTypeAlways(type) == TRUE

\* create_connection, `if adapter_type not in self.ADAPTER_TYPES` negated
IsKnownType(type) == type \in ADAPTER_TYPES

\* The guarded body of create_connection, run by caller c (record cr holds
\* the arguments) from the moment it holds the lock to its first await or
\* its return; w is the lock's wait queue once c holds it.
CreateBody(c, cr, w) ==
    IF IsResume(cr.id)
    THEN \* "Resuming connection": return the registered instance
         /\ callers' = [callers EXCEPT
                          ![c] = Finish(cr, Returned(cr.id, registry[cr.id], "resumed"))]
         /\ lock' = Released(w)
         /\ UNCHANGED <<adapters, registry, bg, uuids, clock, delivered, rx>>
    ELSE IF ~IsKnownType(cr.type)
    THEN /\ callers' = [callers EXCEPT
                          ![c] = Finish(cr, Raised("ValueError", "Unknown adapter type"))]
         /\ lock' = Released(w)
         /\ UNCHANGED <<adapters, registry, bg, uuids, clock, delivered, rx>>
    ELSE LET i == Len(adapters) + 1
             \* connection_id = connection_id or str(uuid4())
             id == IF cr.id = None \/ cr.id = "" THEN Uuid4("r", i) ELSE cr.id
         IN  IF ~cr.config_ok
             THEN \* config_class(**config) rejects the configuration
                  /\ callers' = [callers EXCEPT
                                   ![c] = Finish(cr, Raised("TypeError", "config"))]
                  /\ lock' = Released(w)
                  /\ UNCHANGED <<adapters, registry, bg, uuids, clock, delivered, rx>>
             ELSE LET a0 == NewAdapter(cr.config)
                  IN  /\ ConnectCall(c, [cr EXCEPT !.id = id, !.snapshot = registry],
                                     Append(adapters, a0), i, a0, uuids + 1, w)
                      /\ UNCHANGED <<clock, delivered, rx>>

\* creates that may still construct an instance
PendingCreates ==
    Cardinality({c \in Callers : callers[c].pc # "idle" /\ callers[c].op = "create"})

\* configurations the registry's callers pass
RegistryConfigs ==
    {AdapterConfig("mqtt", 2, Ratio(2, 1), 60, FALSE),
     AdapterConfig("rest", 1, Ratio(2, 1), 60, FALSE)}

\* (adapter_type, config) pairs a caller passes: a known type with a
\* configuration its constructor accepts, a known type with one it rejects,
\* and a type that is not registered
CreateInputs ==
    {[type |-> cfg.name, config_ok |-> TRUE, config |-> cfg] : cfg \in RegistryConfigs}
    \cup {[type |-> t, config_ok |-> FALSE, config |-> NoConfig] : t \in ADAPTER_TYPES}
    \cup {[type |-> "serial", config_ok |-> TRUE, config |-> NoConfig]}

\* A task calls create_connection(adapter_type, config, connection_id) and
\* lines up for the lock (`async with self._lock`).
CreateCall(c) ==
    /\ callers[c].pc = "idle"
    /\ Len(adapters) + PendingCreates < MaxAdapters
    /\ \E in \in CreateInputs, id \in {None} \cup Ids \cup DOMAIN registry :
          /\ LET cr == [IdleCaller EXCEPT !.op = "create", !.type = in.type,
                                          !.config_ok = in.config_ok,
                                          !.config = in.config, !.id = id]
             IN  /\ callers' = [callers EXCEPT ![c] = [cr EXCEPT !.pc = "lock"]]
                 /\ lock' = [lock EXCEPT !.waiters = Append(@, c)]
                 /\ UNCHANGED <<adapters, registry, bg, uuids, clock, delivered, rx>>

\* ---------------------------------------------- retry executor, resumed

\* `await coro()` returned normally
HandshakeSucceeds(c) ==
    /\ callers[c].pc = "handshake"
    /\ LET cr == [callers[c] EXCEPT !.invocations = @ + 1]
           i == cr.adapter
           a == IF cr.op = "retry" THEN adapters[i] ELSE HandshakeOk(adapters[i])
       IN  ExecutorReturned(c, cr, adapters, i, a, "success", lock.waiters)
    /\ UNCHANGED <<uuids, clock, delivered, rx>>

\* `await coro()` raised e: count it, then give up or sleep
HandshakeFails(c, e) ==
    /\ callers[c].pc = "handshake"
    /\ LET cr == [callers[c] EXCEPT !.invocations = @ + 1, !.attempt = @ + 1,
                                    !.faults = Append(@, e)]
           i == cr.adapter
           a == RetryFailure(adapters[i], callers[c].attempt, e)
       IN  IF RetryExhausted(adapters[i], cr.attempt)
           THEN ExecutorRaised(c, cr, adapters, i, a, e, lock.waiters)
           ELSE /\ adapters' = [adapters EXCEPT ![i] = a]
                /\ callers' = [callers EXCEPT
                                 ![c] = [cr EXCEPT !.pc = "sleep",
                                                   !.slept = Append(@, a.retry_delay)]]
                /\ UNCHANGED <<registry, lock, bg>>
    /\ UNCHANGED <<uuids, clock, delivered, rx>>

\* asyncio.sleep(self._retry_delay) is over: back to the loop test
SleepDone(c) ==
    /\ callers[c].pc = "sleep"
    /\ LET cr == callers[c]
           i == cr.adapter
       IN  IF RetryLoopTest(adapters[i], cr.attempt)
           THEN /\ callers' = [callers EXCEPT ![c].pc = "handshake"]
                /\ UNCHANGED <<adapters, registry, lock, bg>>
           ELSE ExecutorReturned(c, cr, adapters, i, adapters[i], None, lock.waiters)
    /\ UNCHANGED <<uuids, clock, delivered, rx>>

\* ------------------------------------------------ adapter: disconnect

\* a disconnect that leaves the running flag as it is
DisconnectBeginStillRunning(a) == a

\* BaseAdapter.disconnect up to `await asyncio.gather(...)`: the running
\* flag is cleared (every task of _tasks is cancelled in the same step)
DisconnectBegin(a) == [a EXCEPT !.running = FALSE]

\* a disconnect that counts itself as an error
DisconnectEndCounting(a) ==
    [a EXCEPT !.status = DISCONNECTED,
              !.status_message = "Connection closed.",
              !.connection_id = None,
              !.metrics.errors = @ + 1]

\* a disconnect that also empties the sample buffer
DisconnectEndClearing(a) ==
    [a EXCEPT !.status = DISCONNECTED,
              !.status_message = "Connection closed.",
              !.connection_id = None,
              !.sample_buffer = <<>>]

\* BaseAdapter.disconnect after the tasks have finished
DisconnectEnd(a) ==
    [a EXCEPT !.status = DISCONNECTED,
              !.status_message = "Connection closed.",
              !.connection_id = None]

\* task.cancel() for every task of adapter i's _tasks
CancelTasks(i) ==
    [t \in DOMAIN bg |->
        IF t \in adapters[i].tasks /\ bg[t].state = "running"
        THEN [bg[t] EXCEPT !.state = "cancelling"] ELSE bg[t]]

\* MQTTAdapter.disconnect / RestAdapter.disconnect: the transport is closed
\* (an await) only if it is still open
MustCloseTransport(a) == a.session_open

\* --------------------------------------------- AdapterRegistry.disconnect

\* a removal that reports True and forgets to delete
DisconnectRemoveKept(c, cr, w) ==
    /\ callers' = [callers EXCEPT
                     ![c] = Finish(cr, Returned(cr.id, cr.adapter, "True"))]
    /\ lock' = IF cr.op = "disconnect" THEN Released(w) ELSE lock
    /\ UNCHANGED registry

\* an unknown id reported as disconnected
NotFoundTrue(cr) == Returned(cr.id, 0, "True")

\* registry.disconnect, `if not adapter: return False`
NotFound(cr) == Returned(cr.id, 0, "False")

\* registry.disconnect after adapter.disconnect() returned or raised:
\* del self._adapters[connection_id]; return True.  (A task that called
\* the adapter's disconnect itself just gets its return.)
DisconnectRemove(c, cr, w) ==
    IF cr.op = "disconnect"
    THEN /\ registry' = Del(registry, cr.id)
         /\ callers' = [callers EXCEPT
                          ![c] = Finish(cr, Returned(cr.id, cr.adapter, "True"))]
         /\ lock' = Released(w)
    ELSE /\ callers' = [callers EXCEPT
                          ![c] = Finish(cr, Returned(None, cr.adapter, None))]
         /\ UNCHANGED <<registry, lock>>

\* BaseAdapter.disconnect as called from registry.disconnect by caller c:
\* without tasks it runs to its end, otherwise it awaits them
BaseDisconnect(c, cr, a, w) ==
    LET i == cr.adapter
    IN  /\ bg' = CancelTasks(i)
        /\ IF a.tasks = {}
           THEN /\ adapters' = [adapters EXCEPT ![i] = DisconnectEnd(DisconnectBegin(a))]
                /\ DisconnectRemove(c, cr, w)
           ELSE /\ adapters' = [adapters EXCEPT ![i] = DisconnectBegin(a)]
                /\ callers' = [callers EXCEPT ![c] = [cr EXCEPT !.pc = "gather"]]
                /\ lock' = IF cr.op = "disconnect" THEN HeldBy(c, w) ELSE lock
                /\ UNCHANGED registry

\* a forced disconnect that also tears the adapter down
ForceStopClosing(a) ==
    [a EXCEPT !.running = FALSE, !.status = DISCONNECTED, !.connection_id = None,
              !.session_open = FALSE]

\* registry.disconnect with force: `adapter._running = False`
ForceStop(a) == [a EXCEPT !.running = FALSE]

\* The guarded body of registry.disconnect(connection_id, force), from the
\* moment caller c holds the lock to its first await or its return.
DisconnectBody(c, cr, w) ==
    /\ UNCHANGED <<uuids, clock, delivered, rx>>
    /\ IF cr.id \notin DOMAIN registry
       THEN /\ callers' = [callers EXCEPT ![c] = Finish(cr, NotFound(cr))]
            /\ lock' = Released(w)
            /\ UNCHANGED <<adapters, registry, bg>>
       ELSE LET i == registry[cr.id]
                cr1 == [cr EXCEPT !.adapter = i]
            IN  IF cr.force
                THEN \* adapter._running = False, nothing else
                     /\ adapters' = [adapters EXCEPT ![i] = ForceStop(@)]
                     /\ DisconnectRemove(c, cr1, w)
                     /\ UNCHANGED bg
                ELSE IF MustCloseTransport(adapters[i])
                THEN /\ callers' = [callers EXCEPT ![c] = [cr1 EXCEPT !.pc = "closing"]]
                     /\ lock' = HeldBy(c, w)
                     /\ UNCHANGED <<adapters, registry, bg>>
                ELSE BaseDisconnect(c, cr1, adapters[i], w)

\* A task calls registry.disconnect(connection_id, force) and lines up for
\* the lock.
DisconnectCall(c) ==
    /\ callers[c].pc = "idle"
    /\ \E id \in Ids \cup DOMAIN registry, force \in BOOLEAN :
          LET cr == [IdleCaller EXCEPT !.op = "disconnect", !.id = id,
                                       !.force = force]
          IN  /\ callers' = [callers EXCEPT ![c] = [cr EXCEPT !.pc = "lock"]]
              /\ lock' = [lock EXCEPT !.waiters = Append(@, c)]
              /\ UNCHANGED <<adapters, registry, bg, uuids, clock, delivered, rx>>

\* The transport close awaited by the adapter's disconnect returned: the
\* session is closed, BaseAdapter.disconnect runs.
TransportClosed(c) ==
    /\ callers[c].pc = "closing"
    /\ LET cr == callers[c]
           a == [adapters[cr.adapter] EXCEPT !.session_open = FALSE]
       IN  BaseDisconnect(c, cr, a, lock.waiters)
    /\ UNCHANGED <<uuids, clock, delivered, rx>>

\* The transport close raised: BaseAdapter.disconnect is never reached,
\* registry.disconnect logs the error and removes the id all the same.
TransportCloseFails(c) ==
    /\ callers[c].pc = "closing"
    /\ IF callers[c].op = "disconnect"
       THEN DisconnectRemove(c, callers[c], lock.waiters)
       ELSE /\ callers' = [callers EXCEPT
                             ![c] = Finish(callers[c], Raised("ClientError", "close"))]
            /\ UNCHANGED <<registry, lock>>
    /\ UNCHANGED <<adapters, bg, uuids, clock, delivered, rx>>

\* `await asyncio.gather(*self._tasks)` returns once every task is done.
GatherDone(c) ==
    /\ callers[c].pc = "gather"
    /\ LET cr == callers[c]
           i == cr.adapter
       IN  /\ \A t \in DOMAIN bg : bg[t].adapter = i => bg[t].state # "cancelling"
           /\ adapters' = [adapters EXCEPT ![i] = DisconnectEnd(@)]
           /\ DisconnectRemove(c, cr, lock.waiters)
    /\ UNCHANGED <<bg, uuids, clock, delivered, rx>>

\* ------------------------------------------------------ background tasks

\* the receive loop's `while` test: MQTTAdapter._receive_loop and the
\* WebSocket loop also need the session, the polling loop only the flag
ReceiveLoopTest(a) ==
    a.running /\ ((a.config.name = "mqtt" \/ a.config.use_websocket) => a.session_open)

\* A task ends: CancelledError is thrown into a cancelled task at its
\* await, or the receive loop sees its test fail; the done callback
\* (self._tasks.discard) takes it out of the adapter's task set.
TaskEnds(t) ==
    /\ t \in DOMAIN bg
    /\ bg[t].state = "cancelling"
       \/ (bg[t].state = "running" /\ ~ReceiveLoopTest(adapters[bg[t].adapter]))
    /\ bg' = [bg EXCEPT ![t].state = "done"]
    /\ adapters' = [adapters EXCEPT ![bg[t].adapter].tasks = @ \ {t}]
    /\ UNCHANGED <<registry, lock, callers, uuids, clock, delivered, rx>>

\* A task takes the lock and runs its guarded body up to its first await.
\* (A free lock is taken without suspending: then this step is the call.)
LockAcquired(c) ==
    /\ callers[c].pc = "lock"
    /\ LockAvailable(c)
    /\ IF callers[c].op = "create"
       THEN CreateBody(c, callers[c], Tail(lock.waiters))
       ELSE DisconnectBody(c, callers[c], Tail(lock.waiters))

\* ---------------------------------------------------- registry: the spec

Init ==
    /\ adapters = <<>>
    /\ registry = EmptyMap
    /\ lock = Released(<<>>)
    /\ callers = [c \in Callers |-> IdleCaller]
    /\ bg = <<>>
    /\ uuids = 0
    /\ clock = 0
    /\ delivered = <<>>
    /\ rx = IdleRx

Next ==
    \/ \E c \in Callers : CreateCall(c)
    \/ \E c \in Callers : LockAcquired(c)
    \/ \E c \in Callers : HandshakeSucceeds(c)
    \/ \E c \in Callers : HandshakeFails(c, "refused")
    \/ \E c \in Callers : SleepDone(c)
    \/ \E c \in Callers : DisconnectCall(c)
    \/ \E c \in Callers : TransportClosed(c)
    \/ \E c \in Callers : TransportCloseFails(c)
    \/ \E c \in Callers : GatherDone(c)
    \/ \E t \in 1..MaxAdapters : TaskEnds(t)

Spec == Init /\ [][Next]_vars

\* ------------------------------------------------ registry: the claims

ConnectInProgress(c) ==
    callers[c].op = "create" /\ callers[c].pc \in {"handshake", "sleep"}
DisconnectInProgress(c) ==
    callers[c].op = "disconnect" /\ callers[c].pc \in {"closing", "gather"}

\* caller c runs the guarded body of create_connection in this step, with
\* an id that is registered
ResumeStep(c) ==
    /\ callers[c].pc = "lock" /\ callers[c].op = "create"
    /\ callers'[c].pc # "lock"
    /\ callers[c].id \in DOMAIN registry

\* C1: create_connection with an id that maps to a registered adapter
\* returns that id and that very instance, whatever type and config were
\* passed; it constructs nothing, starts no connect attempt and leaves the
\* registry map and every adapter (status, metrics, config) as they were.
C1_ResumeReturnsSameInstance ==
    [][\A c \in Callers :
         ResumeStep(c) =>
            /\ callers'[c].pc = "idle"
            /\ callers'[c].result.kind = "return"
            /\ callers'[c].result.id = callers[c].id
            /\ callers'[c].result.adapter = registry[callers[c].id]
            /\ adapters' = adapters
            /\ registry' = registry
            /\ bg' = bg /\ uuids' = uuids
            /\ \A d \in Callers : ConnectInProgress(d)' => ConnectInProgress(d)]_vars

\* a caller holds the outcome of a resume: the registered, connected
\* instance, unchanged
C1_Witness ==
    \E c \in Callers :
        /\ callers[c].result.value = "resumed"
        /\ callers[c].result.id \in DOMAIN registry
        /\ registry[callers[c].result.id] = callers[c].result.adapter
        /\ adapters[callers[c].result.adapter].status = CONNECTED

\* caller c's create_connection ends in this step on a failed handshake
\* (the failure is counted and the call is over)
CreateFailsStep(c) ==
    /\ callers[c].op = "create" /\ callers[c].pc = "handshake"
    /\ callers'[c].pc = "idle"
    /\ adapters'[callers[c].adapter].metrics.reconnect_attempts
         = adapters[callers[c].adapter].metrics.reconnect_attempts + 1

\* C2: when connect raises inside create_connection, the exception reaches
\* the caller and the registry map is what it was when the guarded body of
\* the call began: the id is not registered, generated or caller-supplied.
C2_FailedCreateLeavesRegistry ==
    [][\A c \in Callers :
         /\ ConnectInProgress(c) => registry = callers[c].snapshot
         /\ CreateFailsStep(c) =>
               /\ callers'[c].result.kind = "raise"
               /\ callers'[c].result.id = callers[c].id
               /\ registry' = callers[c].snapshot
               /\ callers[c].id \notin DOMAIN registry']_vars

\* two creates have failed, one for a generated id and one for the
\* caller-supplied id, and neither id is registered
C2_Witness ==
    \E c, d \in Callers :
        /\ callers[c].result.kind = "raise" /\ callers[c].result.id = "x"
        /\ callers[d].result.kind = "raise" /\ callers[d].result.id \notin Ids \cup {None}
        /\ callers[c].result.id \notin DOMAIN registry
        /\ callers[d].result.id \notin DOMAIN registry
        /\ \E i \in DOMAIN adapters : adapters[i].status = ERROR

\* C3: a connect attempt for a connection id is never in progress together
\* with another connect attempt or a disconnect for the same id; each runs
\* while its caller holds the registry lock.
C3_ConnectExclusivePerId ==
    \A c \in Callers :
        /\ ConnectInProgress(c) \/ DisconnectInProgress(c) => lock.holder = c
        /\ \A d \in Callers \ {c} :
              ConnectInProgress(c) /\ (ConnectInProgress(d) \/ DisconnectInProgress(d))
                 => callers[c].id # callers[d].id

\* a connect attempt for an id is in progress while another task waits to
\* create or disconnect the same id
C3_Witness ==
    \E c, d \in Callers :
        /\ c # d
        /\ ConnectInProgress(c) /\ callers[c].pc = "sleep"
        /\ callers[d].pc = "lock" /\ callers[d].id = callers[c].id

\* ============================================================ one adapter
\* One adapter instance, driven directly as the tests drive it: the task
\* "c1" makes the lifecycle calls (connect, the retry executor on an
\* operation of its own, disconnect) one at a time, the task "c2" sends at
\* any moment.

Driver == "c1"
Sender == "c2"

\* configurations an adapter is constructed with
\* (retry_backoff_factor, retry_max_delay): the defaults 2.0 and 60.0, a
\* fractional factor, a delay cap that binds from the second failure on, and
\* a factor below 1 (nothing validates the configuration)
BackoffSettings ==
    {<<Ratio(2, 1), 60>>, <<Ratio(3, 2), 60>>, <<Ratio(2, 1), 3>>, <<Ratio(1, 2), 60>>}

AdapterConfigs ==
    {AdapterConfig("mqtt", n, b[1], b[2], FALSE) :
        n \in 0..MaxAttempts, b \in BackoffSettings}
    \cup {AdapterConfig("rest", n, Ratio(2, 1), 60, ws) :
        n \in 0..MaxAttempts, ws \in BOOLEAN}

\* payloads handed to send: bytes, or str (code points)
SendPayloads ==
    {[str |-> FALSE, data |-> <<104, 105>>],
     [str |-> TRUE, data |-> <<233, 33>>]}

\* len(ch.encode('utf-8')) for one code point
Utf8Len(cp) == IF cp < 128 THEN 1 ELSE IF cp < 2048 THEN 2 ELSE IF cp < 65536 THEN 3 ELSE 4

RECURSIVE SumUtf8(_)
SumUtf8(q) == IF q = <<>> THEN 0 ELSE Utf8Len(Head(q)) + SumUtf8(Tail(q))

\* the byte count send adds to bytes_sent: len(data) for bytes,
\* len(data.encode()) for str
EncodedLen(p) == IF p.str THEN SumUtf8(p.data) ELSE Len(p.data)

\* a send that only refuses an adapter that was never connected
IsNotConnectedOnlyWhenDisconnected(a) == a.status = DISCONNECTED

\* MQTTAdapter.send / RestAdapter.send, `if self.status != CONNECTED`
IsNotConnected(a) == a.status # CONNECTED

\* an error path that also gives up the connection
HandleErrorGivesUp(a) == [a EXCEPT !.metrics.errors = @ + 1, !.status = ERROR]

\* BaseAdapter._handle_error: errors += 1
HandleError(a) == [a EXCEPT !.metrics.errors = @ + 1]

\* send, after the transport write returned: the two counters
SendCounted(a, n) ==
    [a EXCEPT !.metrics.messages_sent = @ + 1, !.metrics.bytes_sent = @ + n]

\* The driver calls adapter.connect().
ConnectDirect(c) ==
    /\ c = Driver /\ callers[c].pc = "idle"
    /\ adapters[1].metrics.reconnect_attempts < MaxReconnects
    /\ Len(bg) < MaxTasks
    /\ ConnectCall(c, [IdleCaller EXCEPT !.op = "connect"], adapters, 1,
                   adapters[1], uuids + 1, lock.waiters)
    /\ UNCHANGED <<clock, delivered, rx>>

\* The driver calls adapter._retry_with_backoff(op) with an operation of
\* its own, which returns "success" or raises.
RetryDirect(c) ==
    /\ c = Driver /\ callers[c].pc = "idle"
    /\ adapters[1].metrics.reconnect_attempts < MaxReconnects
    /\ ExecutorCall(c, [IdleCaller EXCEPT !.op = "retry"], adapters, 1,
                    adapters[1], lock.waiters)
    /\ UNCHANGED <<uuids, clock, delivered, rx>>

\* The driver calls adapter.disconnect().
DisconnectDirect(c) ==
    /\ c = Driver /\ callers[c].pc = "idle"
    /\ LET cr == [IdleCaller EXCEPT !.op = "adapter_disconnect", !.adapter = 1]
       IN  IF MustCloseTransport(adapters[1])
           THEN /\ callers' = [callers EXCEPT ![c] = [cr EXCEPT !.pc = "closing"]]
                /\ UNCHANGED <<adapters, registry, lock, bg>>
           ELSE BaseDisconnect(c, cr, adapters[1], lock.waiters)
    /\ UNCHANGED <<uuids, clock, delivered, rx>>

\* A task calls adapter.send(data): refused at once unless CONNECTED (and,
\* over a WebSocket that is closed, routed to the error path); otherwise
\* the transport write is awaited.
SendCall(c, p) ==
    /\ c = Sender /\ callers[c].pc = "idle"
    /\ adapters[1].metrics.messages_sent + adapters[1].metrics.errors < MaxSends
    /\ LET a == adapters[1]
           cr == [IdleCaller EXCEPT !.op = "send", !.adapter = 1,
                                    !.nbytes = EncodedLen(p)]
       IN  IF IsNotConnected(a)
           THEN /\ callers' = [callers EXCEPT
                    ![c] = Finish(cr, Raised("ConnectionError",
                                  "Not connected (status: " \o a.status \o ")"))]
                /\ UNCHANGED adapters
           ELSE IF a.config.name = "rest" /\ a.config.use_websocket /\ ~a.session_open
           THEN /\ callers' = [callers EXCEPT
                    ![c] = Finish(cr, Raised("ConnectionError", "WebSocket is closed"))]
                /\ adapters' = [adapters EXCEPT ![1] = HandleError(a)]
           ELSE /\ callers' = [callers EXCEPT ![c] = [cr EXCEPT !.pc = "write"]]
                /\ UNCHANGED adapters
    /\ UNCHANGED <<registry, lock, bg, uuids, clock, delivered, rx>>

\* The transport write returned: the two sent counters go up.
WriteDone(c) ==
    /\ callers[c].pc = "write"
    /\ adapters' = [adapters EXCEPT
                      ![callers[c].adapter] = SendCounted(@, callers[c].nbytes)]
    /\ callers' = [callers EXCEPT
                     ![c] = Finish(callers[c], Returned(None, callers[c].adapter, None))]
    /\ UNCHANGED <<registry, lock, bg, uuids, clock, delivered, rx>>

\* The transport write raised e: the error path, then the caller gets e.
WriteFails(c, e) ==
    /\ callers[c].pc = "write"
    /\ adapters' = [adapters EXCEPT ![callers[c].adapter] = HandleError(@)]
    /\ callers' = [callers EXCEPT ![c] = Finish(callers[c], Raised("ClientError", e))]
    /\ UNCHANGED <<registry, lock, bg, uuids, clock, delivered, rx>>

InitAdapter ==
    /\ adapters \in {<<NewAdapter(cfg)>> : cfg \in AdapterConfigs}
    /\ registry = EmptyMap
    /\ lock = Released(<<>>)
    /\ callers = [c \in Callers |-> IdleCaller]
    /\ bg = <<>>
    /\ uuids = 0
    /\ clock = 0
    /\ delivered = <<>>
    /\ rx = IdleRx

NextAdapter ==
    \/ \E c \in Callers : ConnectDirect(c)
    \/ \E c \in Callers : RetryDirect(c)
    \/ \E c \in Callers : HandshakeSucceeds(c)
    \/ \E c \in Callers, e \in Faults : HandshakeFails(c, e)
    \/ \E c \in Callers : SleepDone(c)
    \/ \E c \in Callers : DisconnectDirect(c)
    \/ \E c \in Callers : TransportClosed(c)
    \/ \E c \in Callers : TransportCloseFails(c)
    \/ \E c \in Callers : GatherDone(c)
    \/ \E t \in 1..MaxTasks : TaskEnds(t)
    \/ \E c \in Callers, p \in SendPayloads : SendCall(c, p)
    \/ \E c \in Callers : WriteDone(c)
    \/ \E c \in Callers, e \in Faults : WriteFails(c, e)

SpecAdapter == InitAdapter /\ [][NextAdapter]_vars

\* ------------------------------------------------ one adapter: the claims

InExecutor(c) == callers[c].pc \in {"handshake", "sleep"}
MaxAttemptsOf(c) == adapters[callers[c].adapter].config.retry_max_attempts

\* the operation caller c's executor awaits fails in this step
OperationFails(c) ==
    /\ callers[c].pc = "handshake"
    /\ Len(callers'[c].faults) = Len(callers[c].faults) + 1

\* the operation caller c's executor awaits returns normally in this step
OperationSucceeds(c) ==
    /\ callers[c].pc = "handshake"
    /\ callers'[c].invocations = callers[c].invocations + 1
    /\ callers'[c].faults = callers[c].faults

Last(q) == q[Len(q)]

\* C4: when the operation fails for the retry_max_attempts-th time in a row,
\* the executor has invoked it exactly retry_max_attempts times, sets the
\* status to ERROR, stores that last fault in the status message, raises it
\* to the caller, and neither sleeps nor invokes the operation again.
C4_ExhaustedRetriesRaise ==
    [][\A c \in Callers :
         (OperationFails(c) /\ Len(callers[c].faults) + 1 >= MaxAttemptsOf(c)) =>
            LET i == callers[c].adapter
                e == Last(callers'[c].faults)
            IN  /\ callers'[c].pc = "idle"
                /\ callers'[c].invocations = MaxAttemptsOf(c)
                /\ Len(callers'[c].slept) = MaxAttemptsOf(c) - 1
                /\ callers'[c].result.kind = "raise"
                /\ callers'[c].result.value = "ConnectionError: " \o e
                /\ adapters'[i].status = ERROR
                /\ callers[c].op = "retry" =>
                      adapters'[i].status_message = "Max retry attempts reached: " \o e
                /\ callers[c].op = "connect" =>
                      adapters'[i].status_message = "Failed to connect: " \o e]_vars

\* the executor, called on its own with retry_max_attempts = 3, has raised
\* after three failures whose last fault differs from the first
C4_Witness ==
    \E c \in Callers :
        /\ callers[c].pc = "idle" /\ callers[c].op = "retry"
        /\ callers[c].result.kind = "raise"
        /\ Len(callers[c].faults) = 3
        /\ callers[c].faults[1] # callers[c].faults[3]
        /\ adapters[1].status = ERROR
        /\ adapters[1].status_message = "Max retry attempts reached: " \o callers[c].faults[3]

\* C5: when the operation fails exactly k times (0 <= k < retry_max_attempts)
\* and then succeeds, the executor has invoked it exactly k + 1 times,
\* returns the value of the successful invocation, and reconnect_attempts has
\* grown by exactly k since the executor was entered.
C5_SuccessAfterKFailures ==
    [][\A c \in Callers :
         (OperationSucceeds(c) /\ callers[c].op = "retry") =>
            LET i == callers[c].adapter
                k == Len(callers[c].faults)
            IN  /\ 0 <= k /\ k < MaxAttemptsOf(c)
                /\ callers'[c].pc = "idle"
                /\ callers'[c].invocations = k + 1
                /\ callers'[c].result.kind = "return"
                /\ callers'[c].result.value = "success"
                /\ adapters'[i].metrics.reconnect_attempts = callers[c].reconnects0 + k]_vars

\* the scenario of test_adapter_retry_logic: with retry_max_attempts = 3 the
\* operation failed twice and succeeded on the third invocation (here on an
\* adapter that had counted failures before)
C5_Witness ==
    \E c \in Callers :
        /\ callers[c].pc = "idle" /\ callers[c].op = "retry"
        /\ callers[c].result.value = "success"
        /\ callers[c].invocations = 3 /\ Len(callers[c].faults) = 2
        /\ adapters[1].config.retry_max_attempts = 3
        /\ adapters[1].metrics.reconnect_attempts = callers[c].reconnects0 + 2

\* C6: a connect whose handshake fails k < retry_max_attempts times and then
\* succeeds returns with status CONNECTED; the status before the successful
\* handshake was RECONNECTING when k >= 1 (CONNECTING when k = 0).
C6_ConnectEndsConnected ==
    [][\A c \in Callers :
         (OperationSucceeds(c) /\ callers[c].op = "connect") =>
            LET i == callers[c].adapter
                k == Len(callers[c].faults)
            IN  /\ k < MaxAttemptsOf(c)
                /\ callers'[c].pc = "idle"
                /\ callers'[c].result.kind = "return"
                /\ adapters'[i].status = CONNECTED
                /\ adapters'[i].metrics.reconnect_attempts = callers[c].reconnects0 + k
                /\ adapters[i].status = IF k >= 1 THEN RECONNECTING ELSE CONNECTING]_vars

\* an MQTT connect has returned after two failed handshakes: CONNECTED
C6_Witness ==
    \E c \in Callers :
        /\ callers[c].pc = "idle" /\ callers[c].op = "connect"
        /\ callers[c].result.kind = "return"
        /\ Len(callers[c].faults) = 2 /\ callers[c].invocations = 3
        /\ adapters[1].config.name = "mqtt"
        /\ adapters[1].status = CONNECTED

\* min(1.0 * factor^a, retry_max_delay), from the configuration alone
ExpectedDelay(cfg, a) ==
    LET f == cfg.retry_backoff_factor
    IN  IF IntPow(f[1], a) <= cfg.retry_max_delay * IntPow(f[2], a)
        THEN Ratio(IntPow(f[1], a), IntPow(f[2], a))
        ELSE Ratio(cfg.retry_max_delay, 1)

\* C7: in one executor call, the delay slept after the a-th failure
\* (a < retry_max_attempts) is min(1.0 * factor^a, retry_max_delay): a function
\* of a and the configuration only, never above retry_max_delay, and
\* non-decreasing in a when the factor is above 1.
C7_BackoffDelay ==
    \A c \in Callers :
        LET cfg == adapters[1].config
            slept == callers[c].slept
        IN  /\ callers[c].pc = "sleep" => Len(slept) = Len(callers[c].faults)
            /\ Len(slept) <= Len(callers[c].faults)
            /\ \A a \in 1..Len(slept) :
                  /\ a < cfg.retry_max_attempts
                  /\ RatEq(slept[a], ExpectedDelay(cfg, a))
                  /\ RatLeq(slept[a], Ratio(cfg.retry_max_delay, 1))
                  /\ (a > 1 /\ cfg.retry_backoff_factor[1] > cfg.retry_backoff_factor[2])
                        => RatLeq(slept[a - 1], slept[a])

\* a second executor call on the same adapter is asleep after its second
\* failure, with a delay below the cap and above the first delay
C7_Witness ==
    \E c \in Callers :
        /\ callers[c].pc = "sleep"
        /\ callers[c].reconnects0 > 0
        /\ Len(callers[c].slept) = 2
        /\ ~RatLeq(callers[c].slept[2], callers[c].slept[1])
        /\ ~RatEq(callers[c].slept[2], Ratio(adapters[1].config.retry_max_delay, 1))

\* caller c calls send in this step
SendStep(c) ==
    /\ callers[c].pc = "idle"
    /\ callers'[c] # callers[c]
    /\ callers'[c].op = "send"

\* C10: send on an adapter whose status is not CONNECTED fails with the
\* not-connected ConnectionError, starts no transport write, and leaves the
\* status and every metrics counter (errors included) unchanged.
C10_SendNotConnected ==
    [][\A c \in Callers :
         (SendStep(c) /\ adapters[1].status # CONNECTED) =>
            /\ callers'[c].pc = "idle"
            /\ callers'[c].result.kind = "raise"
            /\ callers'[c].result.value =
                 "ConnectionError: Not connected (status: " \o adapters[1].status \o ")"
            /\ adapters'[1].metrics = adapters[1].metrics
            /\ adapters'[1].status = adapters[1].status
            /\ adapters' = adapters]_vars

\* a send was refused while a connect was between two retries
C10_Witness ==
    \E c \in Callers :
        /\ callers[c].pc = "idle" /\ callers[c].op = "send"
        /\ callers[c].result.value = "ConnectionError: Not connected (status: reconnecting)"
        /\ adapters[1].status = RECONNECTING
        /\ adapters[1].metrics.messages_sent = 0 /\ adapters[1].metrics.errors = 0

\* ====================================================== the sample buffer
\* One freshly constructed adapter (the MockAdapter of tests/test_adapters.py:
\* no message handler installed) is fed inbound messages through
\* _handle_received_data and asked for samples.

\* payloads the transport delivers, as byte sequences: b"Message 1", b"",
\* and b"\xffM" (not valid UTF-8)
InboundPayloads ==
    {<<77, 101, 115, 115, 97, 103, 101, 32, 49>>, <<>>, <<255, 77>>}

\* the maximum character counts a sample is asked for
SampleLimits == {0, 1, 2, 3, 4, 17, 31, 50, 256}

\* one byte of data.decode('utf-8', errors='replace'), for the bytes of
\* InboundPayloads: an ASCII byte is its character, a byte that cannot start
\* a UTF-8 sequence becomes one U+FFFD (written "?")
DecodeByte(b) ==
    CASE b = 32 -> " "
      [] b = 49 -> "1"
      [] b = 77 -> "M"
      [] b = 97 -> "a"
      [] b = 101 -> "e"
      [] b = 103 -> "g"
      [] b = 115 -> "s"
      [] OTHER -> "?"

RECURSIVE Decode(_)
Decode(data) ==
    IF data = <<>> THEN "" ELSE DecodeByte(Head(data)) \o Decode(Tail(data))

\* f"[{datetime.now().isoformat()}] {text}"
Entry(t, text) == "[" \o Isoformat(t) \o "] " \o text

\* an eviction that drops the newest entry instead of the oldest
EvictNewest(buf) ==
    IF Len(buf) > SampleBufferSize THEN SubSeq(buf, 1, Len(buf) - 1) ELSE buf

\* `if len(buffer) > size: buffer.pop(0)`
Evict(buf) == IF Len(buf) > SampleBufferSize THEN Tail(buf) ELSE buf

\* a receive procedure that counts one byte per message
HandleReceivedDataOneByte(a, data, t) ==
    [a EXCEPT !.metrics.messages_received = @ + 1,
              !.metrics.bytes_received = @ + 1,
              !.metrics.last_activity = Isoformat(t),
              !.sample_buffer = Evict(Append(@, Entry(t + 1, Decode(data))))]

\* BaseAdapter._handle_received_data(data) up to its handler test: the
\* counters, last_activity and the sample buffer; the two datetime.now()
\* readings are t and t + 1
HandleReceivedData(a, data, t) ==
    [a EXCEPT !.metrics.messages_received = @ + 1,
              !.metrics.bytes_received = @ + Len(data),
              !.metrics.last_activity = Isoformat(t),
              !.sample_buffer = Evict(Append(@, Entry(t + 1, Decode(data))))]

\* Python's s[:k], k of either sign
SliceTo(s, k) ==
    IF k >= 0 THEN SubSeq(s, 1, Min(k, Len(s)))
    ELSE SubSeq(s, 1, Max(Len(s) + k, 0))

\* Python's q[-k:], k > 0
LastN(q, k) == SubSeq(q, Max(1, Len(q) - k + 1), Len(q))

\* sep.join(q)
RECURSIVE Join(_, _)
Join(sep, q) ==
    IF q = <<>> THEN ""
    ELSE IF Len(q) = 1 THEN q[1]
    ELSE q[1] \o sep \o Join(sep, Tail(q))

\* how many of the latest entries a sample joins (`buffer[-10:]`)
SampleWindow == 10

\* BaseAdapter.sample(n)
Sample(a, n) ==
    IF a.sample_buffer = <<>> THEN "No data available"
    ELSE LET sample == Join("\n", LastN(a.sample_buffer, SampleWindow))
         IN  IF Len(sample) > n THEN SliceTo(sample, n - 3) \o "..." ELSE sample

\* one invocation of a registered handler
MessageCall(i, data) == [handler |-> "on_message", adapter |-> i, data |-> data, error |-> None]
ErrorCall(i, e) == [handler |-> "on_error", adapter |-> i, data |-> <<>>, error |-> e]

\* the receive / error path has run to its end: it returned to its caller
\* (no exception leaves _handle_received_data or _handle_error)
RxReturn(r) ==
    [r EXCEPT !.pc = "idle", !.data = <<>>, !.error = None, !.outcome = "return"]

\* `if self._on_message:` after the message was counted: without a handler
\* the procedure returns, with one it calls it once and awaits it
MessageHandlerTest(i, a, data) ==
    IF a.on_message = None THEN RxReturn(rx)
    ELSE [rx EXCEPT !.pc = "on_message", !.adapter = i, !.data = data,
                    !.calls = Append(@, MessageCall(i, data))]

\* an error path that calls the error handler and counts nothing
ErrorPathUncounted(i, a, e) ==
    /\ adapters' = [adapters EXCEPT ![i] = a]
    /\ rx' = IF a.on_error = None THEN RxReturn(rx)
             ELSE [rx EXCEPT !.pc = "on_error", !.adapter = i, !.error = e,
                             !.calls = Append(@, ErrorCall(i, e))]

\* BaseAdapter._handle_error(e) on adapter i (state a), up to its return or
\* the await of the error handler: errors += 1, then `if self._on_error:`
ErrorPath(i, a, e) ==
    /\ adapters' = [adapters EXCEPT ![i] = HandleError(a)]
    /\ rx' = IF a.on_error = None THEN RxReturn(rx)
             ELSE [rx EXCEPT !.pc = "on_error", !.adapter = i, !.error = e,
                             !.calls = Append(@, ErrorCall(i, e))]

\* The transport hands one inbound message to _handle_received_data.
Receive(data) ==
    /\ rx.pc = "idle"
    /\ Len(delivered) < MaxMessages
    /\ LET a == HandleReceivedData(adapters[1], data, clock)
       IN  /\ adapters' = [adapters EXCEPT ![1] = a]
           /\ rx' = MessageHandlerTest(1, a, data)
    /\ clock' = clock + 2
    /\ delivered' = Append(delivered, <<data, clock + 1>>)
    /\ UNCHANGED <<registry, lock, callers, bg, uuids>>

\* The awaited message handler returned: _handle_received_data returns.
MessageHandlerReturns ==
    /\ rx.pc = "on_message"
    /\ rx' = RxReturn(rx)
    /\ UNCHANGED <<adapters, registry, lock, callers, bg, uuids, clock, delivered>>

\* a handler failure that leaves the receive procedure as an exception
MessageHandlerRaisesPropagates(e) ==
    /\ rx.pc = "on_message"
    /\ rx' = [RxReturn(rx) EXCEPT !.outcome = "raise"]
    /\ UNCHANGED <<adapters, registry, lock, callers, bg, uuids, clock, delivered>>

\* The awaited message handler raised e: it is logged and routed to the
\* error path.
MessageHandlerRaises(e) ==
    /\ rx.pc = "on_message"
    /\ ErrorPath(rx.adapter, adapters[rx.adapter], e)
    /\ UNCHANGED <<registry, lock, callers, bg, uuids, clock, delivered>>

\* A task calls adapter._handle_error(e) itself.
HandleErrorCall(e) ==
    /\ rx.pc = "idle"
    /\ adapters[1].metrics.errors < MaxErrors
    /\ ErrorPath(1, adapters[1], e)
    /\ UNCHANGED <<registry, lock, callers, bg, uuids, clock, delivered>>

\* The awaited error handler returned, or raised (which _handle_error logs
\* and swallows): either way _handle_error returns.
ErrorHandlerEnds(raised) ==
    /\ rx.pc = "on_error"
    /\ rx' = [RxReturn(rx) EXCEPT !.swallowed = IF raised THEN @ + 1 ELSE @]
    /\ UNCHANGED <<adapters, registry, lock, callers, bg, uuids, clock, delivered>>

\* The driver calls adapter.sample(n).
SampleCall(c, n) ==
    /\ c = Driver /\ callers[c].pc = "idle"
    /\ callers' = [callers EXCEPT
          ![c] = [Finish([IdleCaller EXCEPT !.op = "sample"],
                         Returned(None, 1, Sample(adapters[1], n)))
                  EXCEPT !.n = n]]
    /\ UNCHANGED <<adapters, registry, lock, bg, uuids, clock, delivered, rx>>

InitSample ==
    /\ adapters = <<NewAdapter(AdapterConfig("test", 5, Ratio(2, 1), 60, FALSE))>>
    /\ registry = EmptyMap
    /\ lock = Released(<<>>)
    /\ callers = [c \in Callers |-> IdleCaller]
    /\ bg = <<>>
    /\ uuids = 0
    /\ clock = 0
    /\ delivered = <<>>
    /\ rx = IdleRx

NextSample ==
    \/ \E data \in InboundPayloads : Receive(data)
    \/ \E c \in Callers, n \in SampleLimits : SampleCall(c, n)

SpecSample == InitSample /\ [][NextSample]_vars

\* --------------------------------------------- the sample buffer: claims

\* the entries formed for the messages handled so far, oldest first
EntriesDelivered ==
    [k \in 1..Len(delivered) |-> Entry(delivered[k][2], Decode(delivered[k][1]))]

\* C8: the sample buffer never holds more than its capacity; it holds the
\* latest min(capacity, insertions) entries in insertion order, so after
\* capacity + m insertions the oldest m entries are absent.
C8_BufferKeepsLatest ==
    LET buf == adapters[1].sample_buffer
        all == EntriesDelivered
        m == Len(all) - SampleBufferSize
    IN  /\ Len(buf) <= SampleBufferSize
        /\ adapters[1].metrics.messages_received = Len(all)
        /\ buf = LastN(all, SampleBufferSize)
        /\ \A k \in 1..m : \A j \in 1..Len(buf) : buf[j] # all[k]
        /\ m > 0 => /\ Len(buf) = SampleBufferSize
                    /\ \A j \in 1..Len(buf) : buf[j] = all[m + j]

\* two messages beyond the capacity were handled: the buffer is full and
\* starts at the third entry
C8_Witness ==
    /\ Len(delivered) = SampleBufferSize + 2
    /\ Len(adapters[1].sample_buffer) = SampleBufferSize
    /\ adapters[1].sample_buffer[1] = EntriesDelivered[3]
    /\ adapters[1].sample_buffer[1] # EntriesDelivered[1]

\* C9: every text the sample query returns is at most n characters long, n
\* being the maximum character count it was asked for.
C9_SampleWithinLimit ==
    \A c \in Callers :
        (callers[c].op = "sample" /\ callers[c].result.kind = "return") =>
            Len(callers[c].result.value) <= callers[c].n

\* ================================================= receive and error path
\* One adapter (the MockAdapter of test_adapter_callbacks) with or without a
\* message handler and an error handler; inbound messages and errors are
\* handed to it, the handlers return or raise.

HandlerFaults == {"ValueError: Test error"}

ReceiveHandled(data) == Len(delivered) < MaxHandled /\ Receive(data)

InitReceive ==
    /\ adapters \in
         {<<[NewAdapter(AdapterConfig("test", 5, Ratio(2, 1), 60, FALSE))
               EXCEPT !.on_message = m, !.on_error = h]>> :
            m \in {None, "on_message"}, h \in {None, "on_error"}}
    /\ registry = EmptyMap
    /\ lock = Released(<<>>)
    /\ callers = [c \in Callers |-> IdleCaller]
    /\ bg = <<>>
    /\ uuids = 0
    /\ clock = 0
    /\ delivered = <<>>
    /\ rx = IdleRx

NextReceive ==
    \/ \E data \in InboundPayloads : ReceiveHandled(data)
    \/ MessageHandlerReturns
    \/ \E e \in HandlerFaults : MessageHandlerRaises(e)
    \/ \E e \in HandlerFaults : HandleErrorCall(e)
    \/ \E raised \in BOOLEAN : ErrorHandlerEnds(raised)

SpecReceive == InitReceive /\ [][NextReceive]_vars

\* ============================================ one adapter: whole lifetime
\* The adapter of SpecAdapter, with the transport losing and regaining its
\* peer, inbound messages, and the status and sample queries.

\* MQTTAdapter._on_disconnect(client, packet, exc)
OnDisconnect(a, exc) ==
    [a EXCEPT !.status = DISCONNECTED,
              !.status_message = IF exc # None
                                 THEN "Disconnected with error: " \o exc
                                 ELSE "Disconnected from MQTT broker"]

\* The transport loses its peer: the MQTT client reports it through
\* _on_disconnect and starts reconnecting on its own; a WebSocket is closed
\* (no callback, the status stays as it is).
ConnectionLost(exc) ==
    /\ adapters[1].session_open
    /\ adapters[1].config.name = "mqtt" \/ adapters[1].config.use_websocket
    /\ adapters' = [adapters EXCEPT ![1] =
           IF @.config.name = "mqtt"
           THEN [OnDisconnect(@, exc) EXCEPT !.session_open = FALSE, !.link_lost = TRUE]
           ELSE [@ EXCEPT !.session_open = FALSE]]
    /\ UNCHANGED <<registry, lock, callers, bg, uuids, clock, delivered, rx>>

\* The MQTT client has reconnected on its own: _on_connect(rc = 0).
Reconnected ==
    /\ adapters[1].config.name = "mqtt"
    /\ adapters[1].link_lost
    /\ adapters' = [adapters EXCEPT ![1] =
           [OnConnect(@, 0) EXCEPT !.session_open = TRUE, !.link_lost = FALSE]]
    /\ UNCHANGED <<registry, lock, callers, bg, uuids, clock, delivered, rx>>

\* An inbound message arrives over the open transport while the receive
\* loop is alive.
LifeReceive(data) ==
    /\ adapters[1].session_open
    /\ adapters[1].tasks # {}
    /\ Len(delivered) < MaxInbound
    /\ Receive(data)

\* the t of Isoformat(t)
Seconds(stamp) == CHOOSE t \in 0..59 : Isoformat(t) = stamp

\* f"{x:.0f}" for a ratio x >= 0: round to the nearest integer, ties to even
FormatRounded(x) ==
    LET q == x[1] \div x[2]
        r == x[1] % x[2]
    IN  ToString(IF 2 * r > x[2] \/ (2 * r = x[2] /\ q % 2 = 1) THEN q + 1 ELSE q)

\* BaseAdapter._calculate_message_rate at time now; the quotient is written
\* as the exact fraction.  connected_at is a datetime after RestAdapter's
\* connect and a float (the event loop's clock) after MQTTAdapter's
\* _on_connect, and `datetime.now() - <float>` raises TypeError.
CalculateMessageRate(a, now) ==
    IF a.metrics.connected_at = None THEN Returned(None, 0, "0.0")
    ELSE IF a.metrics.connected_at = "float"
    THEN Raised("TypeError", "unsupported operand type(s) for -: 'datetime.datetime' and 'float'")
    ELSE LET duration == now - Seconds(a.metrics.connected_at)
         IN  IF duration > 0
             THEN Returned(None, 0, ToString(a.metrics.messages_received) \o "/" \o ToString(duration))
             ELSE Returned(None, 0, "0.0")

\* BaseAdapter.status() at time now: what the call returns or raises
Status(a, now) ==
    CASE a.status = CONNECTED ->
           IF a.metrics.messages_received > 0
           THEN LET rate == CalculateMessageRate(a, now)
                IN  IF rate.kind = "raise" THEN rate
                    ELSE Returned(None, 0, "OK - streaming " \o rate.value
                                           \o " msg/s ... (sample follows)")
           ELSE Returned(None, 0, "OK - connected, waiting for data")
      [] a.status = RECONNECTING ->
           Returned(None, 0, "Connection configured but unreachable: retrying (back-off "
                             \o FormatRounded(a.retry_delay) \o " s).")
      [] a.status = ERROR -> Returned(None, 0, "Connection error: " \o a.status_message)
      [] a.status = CONNECTING -> Returned(None, 0, "Connecting...")
      [] OTHER -> Returned(None, 0, a.status_message)

\* the attributes BaseAdapter.__init__ binds on the instance
InstanceAttributes ==
    {"config", "status", "metrics", "_connection_id", "_sample_buffer",
     "_sample_buffer_size", "_status_message", "_retry_delay", "_running",
     "_tasks", "_on_message", "_on_error"}

\* `await adapter.status()`: attribute lookup finds the instance attribute
\* `status` (the ConnectionStatus member assigned in __init__) before the
\* class's function of the same name, and a ConnectionStatus member is not
\* callable; the function body is reached only if no instance attribute
\* hides it
CallStatus(a, now) ==
    IF "status" \in InstanceAttributes
    THEN Raised("TypeError", "'ConnectionStatus' object is not callable")
    ELSE Status(a, now)

\* A task calls adapter.status().
StatusCall(c) ==
    /\ c = Sender /\ callers[c].pc = "idle"
    /\ callers' = [callers EXCEPT
          ![c] = Finish([IdleCaller EXCEPT !.op = "status"],
                        [CallStatus(adapters[1], clock) EXCEPT !.adapter = 1])]
    /\ UNCHANGED <<adapters, registry, lock, bg, uuids, clock, delivered, rx>>

\* A second task calls adapter.disconnect() while the driver is in no call
\* and the adapter has no open transport and no task: nothing is awaited.
DisconnectAgain(c) ==
    /\ c = Sender /\ callers[c].pc = "idle" /\ callers[Driver].pc = "idle"
    /\ ~MustCloseTransport(adapters[1]) /\ adapters[1].tasks = {}
    /\ BaseDisconnect(c, [IdleCaller EXCEPT !.op = "adapter_disconnect", !.adapter = 1],
                      adapters[1], lock.waiters)
    /\ UNCHANGED <<uuids, clock, delivered, rx>>

LifeConfigs ==
    {AdapterConfig("mqtt", 2, Ratio(2, 1), 60, FALSE),
     AdapterConfig("rest", 2, Ratio(2, 1), 60, TRUE),
     AdapterConfig("rest", 1, Ratio(2, 1), 60, FALSE)}

LifePayloads == {<<255, 77>>}

LifeSampleLimits == {256}

InitLife ==
    /\ adapters \in {<<NewAdapter(cfg)>> : cfg \in LifeConfigs}
    /\ registry = EmptyMap
    /\ lock = Released(<<>>)
    /\ callers = [c \in Callers |-> IdleCaller]
    /\ bg = <<>>
    /\ uuids = 0
    /\ clock = 0
    /\ delivered = <<>>
    /\ rx = IdleRx

NextLife ==
    \/ \E c \in Callers : ConnectDirect(c)
    \/ \E c \in Callers : HandshakeSucceeds(c)
    \/ \E c \in Callers : HandshakeFails(c, "refused")
    \/ \E c \in Callers : SleepDone(c)
    \/ \E c \in Callers : DisconnectDirect(c)
    \/ \E c \in Callers : TransportClosed(c)
    \/ \E c \in Callers : TransportCloseFails(c)
    \/ \E c \in Callers : GatherDone(c)
    \/ \E t \in 1..MaxTasks : TaskEnds(t)
    \/ \E c \in Callers, p \in SendPayloads : SendCall(c, p)
    \/ \E c \in Callers : WriteDone(c)
    \/ \E c \in Callers : WriteFails(c, "timeout")
    \/ ConnectionLost("reset")
    \/ Reconnected
    \/ \E data \in LifePayloads : LifeReceive(data)
    \/ \E c \in Callers : StatusCall(c)
    \/ \E c \in Callers, n \in LifeSampleLimits : SampleCall(c, n)
    \/ \E c \in Callers : DisconnectAgain(c)

SpecLife == InitLife /\ [][NextLife]_vars

\* ------------------------------------- one adapter, lifetime: the claims

\* caller c's adapter.disconnect() returns in this step
DisconnectReturns(c) ==
    /\ DisconnectDirect(c) \/ DisconnectAgain(c) \/ TransportClosed(c) \/ GatherDone(c)
    /\ callers'[c].pc = "idle"
    /\ callers'[c].op = "adapter_disconnect"
    /\ callers'[c].result.kind = "return"

\* C11: when an adapter's graceful disconnect returns, whatever the state it
\* was called in, the running flag is false, the adapter's task set is empty
\* and every task it owned has finished, the status is DISCONNECTED and the
\* connection identifier is cleared.
C11_DisconnectPostcondition ==
    [][\A c \in Callers :
         DisconnectReturns(c) =>
            /\ ~adapters'[1].running
            /\ adapters'[1].tasks = {}
            /\ \A t \in DOMAIN bg' : bg'[t].adapter = 1 => bg'[t].state = "done"
            /\ adapters'[1].status = DISCONNECTED
            /\ adapters'[1].connection_id = None]_vars

\* a disconnect has returned on an adapter that had connected twice and
\* received a message: both receive-loop tasks are done
C11_Witness ==
    /\ callers[Driver].pc = "idle" /\ callers[Driver].op = "adapter_disconnect"
    /\ callers[Driver].result.kind = "return"
    /\ Len(bg) = 2 /\ bg[1].state = "done" /\ bg[2].state = "done"
    /\ adapters[1].metrics.messages_received > 0
    /\ adapters[1].status = DISCONNECTED /\ adapters[1].connection_id = None
    /\ ~adapters[1].running /\ adapters[1].tasks = {}

\* an adapter that was never connected or is already disconnected
Quiet(a) ==
    /\ a.status = DISCONNECTED /\ a.connection_id = None
    /\ a.tasks = {} /\ ~a.running

\* a step of caller c inside adapter.disconnect()
DisconnectStep(c) ==
    \/ DisconnectDirect(c) \/ DisconnectAgain(c)
    \/ (callers[c].op = "adapter_disconnect" /\
          (TransportClosed(c) \/ TransportCloseFails(c) \/ GatherDone(c)))

\* C12: disconnect on a never-connected or already-disconnected adapter
\* (its transport closed) returns without an error and changes nothing but
\* the status message (nothing at all when a disconnect had returned
\* before); no step of a disconnect changes the metrics; and whenever a
\* disconnect returns, BaseAdapter.disconnect run once more would leave the
\* adapter exactly as it is.
C12_DisconnectIdempotent ==
    [][\A c \in Callers :
         /\ DisconnectStep(c) => adapters'[1].metrics = adapters[1].metrics
         /\ ((DisconnectDirect(c) \/ DisconnectAgain(c))
               /\ Quiet(adapters[1]) /\ ~MustCloseTransport(adapters[1])) =>
               /\ DisconnectReturns(c)
               /\ adapters'[1] = [adapters[1] EXCEPT !.status_message = "Connection closed."]
               /\ adapters'[1].metrics = adapters[1].metrics
               /\ adapters[1].status_message = "Connection closed." => adapters' = adapters
               /\ bg' = bg
         /\ DisconnectReturns(c) =>
               /\ Quiet(adapters'[1])
               /\ DisconnectEnd(DisconnectBegin(adapters'[1])) = adapters'[1]]_vars

\* the driver connected and disconnected, and the second task's disconnect
\* has returned too: the adapter is as the first disconnect left it
C12_Witness ==
    /\ callers[Driver].pc = "idle" /\ callers[Driver].op = "adapter_disconnect"
    /\ callers[Driver].result.kind = "return"
    /\ callers[Sender].pc = "idle" /\ callers[Sender].op = "adapter_disconnect"
    /\ callers[Sender].result.kind = "return"
    /\ Len(bg) = 1 /\ bg[1].state = "done"
    /\ Quiet(adapters[1]) /\ adapters[1].status_message = "Connection closed."
    /\ adapters[1].metrics.connected_at # None

\* ------------------------------------- registry disconnect: the claims

\* caller c's registry.disconnect(id, force) takes the lock in this step
DisconnectEnters(c) ==
    /\ callers[c].op = "disconnect" /\ callers[c].pc = "lock"
    /\ callers'[c].pc # "lock"

\* caller c's registry.disconnect(id, force) returns or raises in this step
DisconnectLeaves(c) ==
    /\ callers[c].op = "disconnect" /\ callers[c].pc # "idle"
    /\ callers'[c].pc = "idle"

\* C13: registry.disconnect(id, force) on an id that is not registered
\* returns False and leaves the registry map, every adapter and every task
\* as they were, for force = False and force = True.
C13_DisconnectUnknownId ==
    [][\A c \in Callers :
         (DisconnectEnters(c) /\ callers[c].id \notin DOMAIN registry) =>
            /\ callers'[c].pc = "idle"
            /\ callers'[c].result.kind = "return"
            /\ callers'[c].result.value = "False"
            /\ registry' = registry
            /\ adapters' = adapters
            /\ bg' = bg]_vars

\* both tasks were told False, one with force and one without, while
\* another id is registered
C13_Witness ==
    /\ \A c \in Callers : /\ callers[c].pc = "idle" /\ callers[c].op = "disconnect"
                          /\ callers[c].result.value = "False"
    /\ callers["c1"].force # callers["c2"].force
    /\ registry # EmptyMap

\* C14: registry.disconnect(id, force) on a registered id returns True, and
\* when it returns the id is out of the map and nothing else in the map has
\* changed.  With force = False the adapter's graceful disconnect has run
\* (or raised) before the removal; when it raises, the id is removed and
\* True is returned all the same.  With force = True only the running flag
\* is cleared.
C14_DisconnectRegisteredId ==
    [][\A c \in Callers :
         /\ (DisconnectEnters(c) /\ callers[c].id \in DOMAIN registry) =>
               /\ callers'[c].pc = "idle" => callers'[c].result.value = "True"
               /\ callers'[c].pc # "idle" => (registry' = registry /\ ~callers[c].force)
               /\ callers[c].force =>
                     /\ callers'[c].pc = "idle"
                     /\ adapters' = [adapters EXCEPT ![registry[callers[c].id]].running = FALSE]
         /\ (DisconnectLeaves(c) /\ callers[c].id \in DOMAIN registry) =>
               LET i == registry[callers[c].id]
               IN  /\ callers'[c].result.kind = "return"
                   /\ callers'[c].result.value = "True"
                   /\ registry' = Del(registry, callers[c].id)
                   /\ callers[c].id \notin DOMAIN registry'
                   /\ (~callers[c].force /\ ~TransportCloseFails(c)) =>
                         /\ adapters'[i].status = DISCONNECTED
                         /\ adapters'[i].connection_id = None
                         /\ adapters'[i].tasks = {} /\ ~adapters'[i].running
                   /\ TransportCloseFails(c) => adapters' = adapters]_vars

\* a graceful registry disconnect whose transport close raised has returned
\* True: the id is gone although the adapter is still CONNECTED and running
C14_Witness ==
    \E c \in Callers :
        /\ callers[c].pc = "idle" /\ callers[c].op = "disconnect" /\ ~callers[c].force
        /\ callers[c].result.value = "True"
        /\ callers[c].result.id \notin DOMAIN registry
        /\ adapters[callers[c].result.adapter].status = CONNECTED
        /\ adapters[callers[c].result.adapter].running

\* ------------------------------------ receive and error path: the claims

\* the calls made so far to the handler named h
CallsOf(h) == SelectSeq(rx.calls, LAMBDA call : call.handler = h)

\* an inbound message enters _handle_received_data in this step
ReceiveStep == Len(delivered') = Len(delivered) + 1

\* C15: each inbound message handed to _handle_received_data adds 1 to
\* messages_received and len(data) to bytes_received, updates last_activity,
\* appends exactly one snippet (the decoded payload) to the sample buffer
\* and, when a message handler is registered, calls it once with the same
\* bytes (never otherwise); messages_sent, bytes_sent, reconnect_attempts,
\* errors and the status are unchanged by that step.
C15_ReceiveAccounting ==
    [][/\ ReceiveStep =>
            LET a == adapters[1]
                b == adapters'[1]
                data == Last(delivered')[1]
                entry == Entry(Last(delivered')[2], Decode(data))
            IN  /\ b.metrics.messages_received = a.metrics.messages_received + 1
                /\ b.metrics.bytes_received = a.metrics.bytes_received + Len(data)
                /\ b.metrics.last_activity = Isoformat(clock)
                /\ b.metrics.last_activity # a.metrics.last_activity
                /\ b.sample_buffer = Evict(Append(a.sample_buffer, entry))
                /\ Last(b.sample_buffer) = entry
                /\ b.metrics.messages_sent = a.metrics.messages_sent
                /\ b.metrics.bytes_sent = a.metrics.bytes_sent
                /\ b.metrics.reconnect_attempts = a.metrics.reconnect_attempts
                /\ b.metrics.errors = a.metrics.errors
                /\ b.status = a.status
                /\ rx'.calls = IF a.on_message = None THEN rx.calls
                               ELSE Append(rx.calls, MessageCall(1, data))
       /\ ~ReceiveStep => /\ CallsOf("on_message")' = CallsOf("on_message")
                         /\ adapters'[1].metrics.messages_received
                               = adapters[1].metrics.messages_received
                         /\ adapters'[1].sample_buffer = adapters[1].sample_buffer
       /\ Len(CallsOf("on_message")') =
            IF adapters[1].on_message = None THEN 0 ELSE Len(delivered')]_vars

\* three messages were handled with a handler registered: three calls, the
\* second with the bytes of the second message, which were not valid UTF-8
C15_Witness ==
    /\ rx.pc = "idle" /\ Len(delivered) = 3
    /\ adapters[1].on_message # None
    /\ Len(CallsOf("on_message")) = 3
    /\ delivered[2][1] = <<255, 77>>
    /\ CallsOf("on_message")[2].data = <<255, 77>>
    /\ adapters[1].metrics.messages_received = 3
    /\ adapters[1].metrics.bytes_received = 2 + Len(delivered[1][1]) + Len(delivered[3][1])

\* the awaited message handler raises in this step
HandlerRaisesStep ==
    /\ rx.pc = "on_message"
    /\ rx'.pc # "on_message"
    /\ adapters'[1].metrics.errors # adapters[1].metrics.errors \/ rx'.outcome = "raise"

\* C16: when the message handler raises, the receive procedure still ends by
\* returning, the message stays counted and sampled, errors grows by exactly
\* 1, and the error handler, if registered, is called exactly once with
\* that exception.
C16_HandlerFailureIsolated ==
    [][/\ HandlerRaisesStep =>
            LET a == adapters[1]
                b == adapters'[1]
            IN  /\ b.metrics.errors = a.metrics.errors + 1
                /\ b = HandleError(a)
                /\ b.metrics.messages_received = Len(delivered)
                /\ Last(b.sample_buffer) = Entry(Last(delivered)[2], Decode(rx.data))
                /\ rx.data = Last(delivered)[1]
                /\ IF a.on_error = None
                   THEN /\ rx'.pc = "idle" /\ rx'.outcome = "return"
                        /\ rx'.calls = rx.calls
                   ELSE /\ rx'.pc = "on_error"
                        /\ \E e \in HandlerFaults :
                              rx'.calls = Append(rx.calls, ErrorCall(1, e))
       /\ (rx.pc = "on_error" /\ rx'.pc # "on_error") =>
            /\ rx'.pc = "idle" /\ rx'.outcome = "return"
            /\ rx'.calls = rx.calls
            /\ adapters' = adapters
       /\ rx'.outcome # "raise"]_vars

\* a message whose handler raised has been handled to the end with an error
\* handler registered: counted, sampled, one error, one call of each handler
C16_Witness ==
    /\ rx.pc = "idle" /\ rx.outcome = "return"
    /\ Len(delivered) = 1 /\ adapters[1].metrics.messages_received = 1
    /\ Len(adapters[1].sample_buffer) = 1
    /\ adapters[1].metrics.errors = 1
    /\ Len(CallsOf("on_message")) = 1 /\ Len(CallsOf("on_error")) = 1
    /\ Last(rx.calls) = ErrorCall(1, "ValueError: Test error")

\* an exception enters _handle_error in this step
ErrorPathStep ==
    \E e \in HandlerFaults : HandleErrorCall(e) \/ MessageHandlerRaises(e)

\* C17: every exception that enters _handle_error adds exactly 1 to errors
\* and, if an error handler is registered, calls it exactly once with that
\* exception; an exception raised by the error handler is swallowed: the
\* procedure returns, errors is not incremented again and no handler is
\* called again.
C17_ErrorPath ==
    [][/\ ErrorPathStep =>
            /\ adapters'[1] = HandleError(adapters[1])
            /\ adapters'[1].metrics.errors = adapters[1].metrics.errors + 1
            /\ IF adapters[1].on_error = None
               THEN rx'.calls = rx.calls /\ rx'.pc = "idle" /\ rx'.outcome = "return"
               ELSE /\ rx'.pc = "on_error"
                    /\ rx'.calls = Append(rx.calls, ErrorCall(1, rx'.error))
                    /\ rx'.error \in HandlerFaults
       /\ ~ErrorPathStep =>
            /\ adapters'[1].metrics.errors = adapters[1].metrics.errors
            /\ CallsOf("on_error")' = CallsOf("on_error")
       /\ (rx'.swallowed > rx.swallowed) =>
            /\ rx.pc = "on_error" /\ rx'.pc = "idle" /\ rx'.outcome = "return"
            /\ adapters' = adapters /\ rx'.calls = rx.calls
       /\ Len(CallsOf("on_error")') =
            IF adapters[1].on_error = None THEN 0 ELSE adapters'[1].metrics.errors]_vars

\* two errors were handed to _handle_error, the error handler raised on
\* both: two errors counted, two calls, both failures swallowed
C17_Witness ==
    /\ rx.pc = "idle" /\ rx.outcome = "return"
    /\ adapters[1].metrics.errors = 2
    /\ Len(CallsOf("on_error")) = 2
    /\ rx.swallowed = 2
    /\ delivered = <<>>

\* the status changes the specification calls legal
LegalTransitions ==
    {<<DISCONNECTED, CONNECTING>>, <<ERROR, CONNECTING>>,
     <<CONNECTING, CONNECTED>>, <<CONNECTING, RECONNECTING>>,
     <<RECONNECTING, CONNECTED>>, <<RECONNECTING, ERROR>>,
     <<CONNECTED, DISCONNECTED>>}
        \cup {<<st, ERROR>> : st \in ConnectionStatus}

\* C18: every change of an adapter's status is one of the legal transitions;
\* in particular a status of ERROR changes only to CONNECTING.
C18_LegalStatusTransitions ==
    [][\A i \in DOMAIN adapters :
         adapters'[i].status # adapters[i].status =>
            <<adapters[i].status, adapters'[i].status>> \in LegalTransitions]_vars

\* the counters of ConnectionMetrics
Counters ==
    {"messages_sent", "messages_received", "bytes_sent", "bytes_received",
     "errors", "reconnect_attempts"}

\* C19: over the whole life of an adapter instance (connect, retry, send,
\* receive, error handling, disconnect, connecting again) no counter of its
\* metrics decreases or is reset.
C19_CountersNeverDecrease ==
    [][\A i \in DOMAIN adapters : \A k \in Counters :
          adapters'[i].metrics[k] >= adapters[i].metrics[k]]_vars

\* the adapter has been connected, retried, used, disconnected and connected
\* again, and is disconnected once more with its counters standing
C19_Witness ==
    /\ Len(bg) = 2 /\ adapters[1].status = DISCONNECTED
    /\ callers[Driver].pc = "idle" /\ callers[Driver].op = "adapter_disconnect"
    /\ adapters[1].metrics.reconnect_attempts > 0
    /\ adapters[1].metrics.messages_received > 0
    /\ adapters[1].metrics.bytes_received > 0
    /\ \/ adapters[1].metrics.messages_sent > 0 /\ adapters[1].metrics.bytes_sent > 0
       \/ adapters[1].metrics.errors > 0

\* C20: in every reachable state of an adapter of any transport, the status
\* query and the sample query return a string and never raise.
C20_QueriesNeverRaise ==
    \A c \in Callers :
        (callers[c].pc = "idle" /\ callers[c].op \in {"status", "sample"})
            => callers[c].result.kind = "return"

\* ------------------------------------------ registry: bindings and errors

\* caller c constructs an adapter instance in this step
ConstructStep(c) ==
    /\ callers[c].pc = "lock" /\ callers[c].op = "create"
    /\ Len(adapters') = Len(adapters) + 1
    /\ callers'[c].adapter = Len(adapters')

\* C22: while an id stays registered it maps to one and the same adapter
\* instance: no create constructs or registers a second instance for a
\* registered id, the binding of an id changes only by its removal, and no
\* instance is bound to two ids.
C22_OneInstancePerLiveId ==
    [][/\ \A id \in DOMAIN registry \cap DOMAIN registry' : registry'[id] = registry[id]
       /\ Len(adapters') # Len(adapters) =>
             \E c \in Callers : ConstructStep(c) /\ callers[c].id \notin DOMAIN registry
       /\ \A id \in DOMAIN registry' \ DOMAIN registry :
             \A other \in DOMAIN registry : registry[other] # registry'[id]
       /\ \A id1, id2 \in DOMAIN registry' :
             registry'[id1] = registry'[id2] => id1 = id2]_vars

\* the caller-supplied id was registered, removed and registered again: it
\* is bound to the second instance while the first is disconnected
C22_Witness ==
    /\ "x" \in DOMAIN registry /\ registry["x"] = 2
    /\ adapters[1].status = DISCONNECTED /\ adapters[2].status = CONNECTED
    /\ \E c \in Callers : callers[c].result.value = "created" /\ callers[c].result.id = "x"
                          /\ callers[c].result.adapter = 2

\* caller c runs the guarded body of create_connection in this step with an
\* unregistered id and a configuration error: an adapter type that is not
\* in ADAPTER_TYPES, or a config its config class rejects
ConfigErrorStep(c) ==
    /\ callers[c].pc = "lock" /\ callers[c].op = "create"
    /\ callers'[c].pc # "lock"
    /\ callers[c].id \notin DOMAIN registry
    /\ callers[c].type \notin ADAPTER_TYPES \/ ~callers[c].config_ok

\* C26: a configuration error in create_connection is raised to the caller
\* in the step that detects it (ValueError for an unknown type, the
\* constructor's error for a rejected config): no adapter is constructed, no
\* connect attempt or retry is made, reconnect_attempts of no adapter
\* changes and the registry map is unchanged.
C26_ConfigErrorImmediate ==
    [][\A c \in Callers :
         ConfigErrorStep(c) =>
            /\ callers'[c].pc = "idle"
            /\ callers'[c].result.kind = "raise"
            /\ callers'[c].result.value =
                  (IF callers[c].type \notin ADAPTER_TYPES
                   THEN "ValueError: Unknown adapter type" ELSE "TypeError: config")
            /\ callers'[c].invocations = 0 /\ callers'[c].slept = <<>>
            /\ adapters' = adapters /\ registry' = registry
            /\ bg' = bg /\ uuids' = uuids
            /\ lock'.holder # c]_vars

\* both kinds of configuration error have been raised while another id is
\* registered and connected
C26_Witness ==
    \E c, d \in Callers :
        /\ callers[c].pc = "idle" /\ callers[c].result.value = "ValueError: Unknown adapter type"
        /\ callers[d].pc = "idle" /\ callers[d].result.value = "TypeError: config"
        /\ DOMAIN registry # {}
        /\ \A id \in DOMAIN registry : adapters[registry[id]].status = CONNECTED

\* caller d waits for the lock with a create for the caller-supplied id
\* that caller c's create is connecting
RacingCreates(c, d) ==
    /\ c # d
    /\ ConnectInProgress(c) /\ callers[c].id \in Ids
    /\ callers[d].pc = "lock" /\ callers[d].op = "create"
    /\ callers[d].id = callers[c].id

\* caller c's create of a caller-supplied id has returned its instance,
\* registered under the id, and caller d still waits for the lock with a
\* create for that id
FirstCreateDone(c, d) ==
    /\ c # d
    /\ callers[c].result.value = "created" /\ callers[c].result.id \in Ids
    /\ callers[c].result.id \in DOMAIN registry
    /\ registry[callers[c].result.id] = callers[c].result.adapter
    /\ callers[d].pc = "lock" /\ callers[d].op = "create"
    /\ callers[d].id = callers[c].result.id

\* C27: when two creates for the same caller-supplied, unregistered id run
\* concurrently and the connect of the one that holds the lock first
\* succeeds, exactly one adapter is constructed and connected for the id:
\* the waiting call constructs nothing and starts no connect while the first
\* connects; the first registers its instance while the second still waits;
\* the binding stays until the second call gets the lock; and the second
\* then returns that same instance without constructing or connecting
\* anything.
C27_ConcurrentCreatesShareInstance ==
    [][\A c, d \in Callers :
         /\ RacingCreates(c, d) =>
               /\ callers[c].id \notin DOMAIN registry
               /\ callers'[d] = callers[d]
               /\ Len(adapters') = Len(adapters)
               /\ (callers'[c].pc = "idle" /\ callers'[c].result.kind = "return") =>
                     /\ callers'[c].result.adapter = callers[c].adapter
                     /\ adapters'[callers[c].adapter].status = CONNECTED
                     /\ FirstCreateDone(c, d)'
         /\ (FirstCreateDone(c, d) /\ callers'[d] = callers[d]) =>
               /\ registry' = registry
               /\ Len(adapters') = Len(adapters)
               /\ callers'[c].result = callers[c].result => FirstCreateDone(c, d)'
         /\ (FirstCreateDone(c, d) /\ callers'[d] # callers[d]) =>
               /\ callers'[d].pc = "idle" /\ callers'[d].result.kind = "return"
               /\ callers'[d].result.id = callers[c].result.id
               /\ callers'[d].result.adapter = callers[c].result.adapter
               /\ callers'[d].invocations = 0
               /\ adapters' = adapters /\ registry' = registry
               /\ bg' = bg /\ uuids' = uuids]_vars

\* both calls have returned the one instance constructed for the id, the
\* second after waiting through the first one's retry
C27_Witness ==
    \E c, d \in Callers :
        /\ c # d /\ callers[c].pc = "idle" /\ callers[d].pc = "idle"
        /\ callers[c].result.value = "created" /\ callers[d].result.value = "resumed"
        /\ callers[c].result.id = "x" /\ callers[d].result.id = "x"
        /\ callers[c].result.adapter = callers[d].result.adapter
        /\ Len(callers[c].slept) > 0
        /\ Len(adapters) = 1 /\ registry["x"] = 1

\* caller c runs the guarded body of registry.disconnect(id, force=True) in
\* this step, for an id that is registered
ForcedDisconnectStep(c) ==
    /\ callers[c].pc = "lock" /\ callers[c].op = "disconnect" /\ callers[c].force
    /\ callers'[c].pc # "lock"
    /\ callers[c].id \in DOMAIN registry

\* C28: disconnect(id, force=True) on a registered id removes the id from
\* the map and sets the adapter's running flag to False, in one step and
\* returning True; it cancels and awaits no background task, releases no
\* transport resource, and leaves the adapter's status, connection
\* identifier, task set, metrics and sample buffer, and every other adapter,
\* unchanged.
C28_ForcedDisconnectFrame ==
    [][\A c \in Callers :
         ForcedDisconnectStep(c) =>
            LET i == registry[callers[c].id]
            IN  /\ registry' = Del(registry, callers[c].id)
                /\ adapters' = [adapters EXCEPT ![i].running = FALSE]
                /\ bg' = bg /\ uuids' = uuids
                /\ callers'[c].pc = "idle"
                /\ callers'[c].result.kind = "return"
                /\ callers'[c].result.value = "True"
                /\ lock'.holder = NoCaller]_vars

\* a forced disconnect has returned: the id is gone, the adapter is still
\* CONNECTED with its transport session open and its receive task running,
\* only the running flag is down
C28_Witness ==
    \E c \in Callers :
        /\ callers[c].pc = "idle" /\ callers[c].op = "disconnect" /\ callers[c].force
        /\ callers[c].result.value = "True"
        /\ callers[c].result.id \notin DOMAIN registry
        /\ LET a == adapters[callers[c].result.adapter]
           IN  /\ a.status = CONNECTED /\ a.connection_id # None
               /\ ~a.running /\ a.session_open
               /\ a.tasks # {}
               /\ \A t \in a.tasks : bg[t].state = "running"

\* caller d's create or disconnect waits for the lock while caller c is in
\* the middle of a create (handshake or retry sleep) or a disconnect
\* (transport close or task gather)
WaitsFor(d, c) ==
    /\ c # d
    /\ callers[d].pc = "lock" /\ lock.holder = c
    /\ ConnectInProgress(c) \/ DisconnectInProgress(c)

\* C23: operations against different connection ids are independent: a
\* create or disconnect for a caller-supplied id never waits for an
\* in-progress create (retry sleeps included) or disconnect of a different
\* id.
C23_DifferentIdsIndependent ==
    \A c, d \in Callers :
        (WaitsFor(d, c) /\ callers[d].id \in Ids) => callers[c].id = callers[d].id

\* ------------------------------------------------------ send: the outcome

\* caller c's send ends in this step: at its call (the WebSocket is found
\* closed) or when the awaited transport write returns or raises
SendEnds(c) ==
    /\ callers'[c].pc = "idle" /\ callers'[c].op = "send"
    /\ \/ callers[c].pc = "write"
       \/ SendStep(c) /\ adapters[1].status = CONNECTED

\* C30: a send that was accepted on a CONNECTED adapter and succeeds adds
\* exactly 1 to messages_sent and the payload's byte length to bytes_sent;
\* one whose transport write fails raises the error to the caller, leaves
\* messages_sent and bytes_sent unchanged, does not change the status and
\* starts no reconnect attempt (reconnect_attempts unchanged, no executor
\* entered); either way nothing else of the adapter changes except the
\* error counter on failure.
C30_SendOutcome ==
    [][\A c \in Callers :
         SendEnds(c) =>
            LET a == adapters[1]
                b == adapters'[1]
            IN  /\ callers'[c].result.kind \in {"return", "raise"}
                /\ callers'[c].result.kind = "return" =>
                      /\ b.metrics.messages_sent = a.metrics.messages_sent + 1
                      /\ b.metrics.bytes_sent = a.metrics.bytes_sent + callers[c].nbytes
                      /\ b.metrics.errors = a.metrics.errors
                /\ callers'[c].result.kind = "raise" =>
                      /\ b.metrics.messages_sent = a.metrics.messages_sent
                      /\ b.metrics.bytes_sent = a.metrics.bytes_sent
                      /\ b.metrics.errors = a.metrics.errors + 1
                /\ b.status = a.status
                /\ b.metrics.reconnect_attempts = a.metrics.reconnect_attempts
                /\ b.metrics.messages_received = a.metrics.messages_received
                /\ b.metrics.bytes_received = a.metrics.bytes_received
                /\ b.running = a.running /\ b.tasks = a.tasks
                /\ b.connection_id = a.connection_id
                /\ ~InExecutor(c)' /\ bg' = bg]_vars

\* a transport write has failed on an adapter that connected after one
\* retry: the sender holds the error, the adapter is still CONNECTED and
\* has counted the error but no message
C30_Witness ==
    /\ callers[Sender].pc = "idle" /\ callers[Sender].op = "send"
    /\ callers[Sender].result.kind = "raise"
    /\ callers[Sender].result.value = "ClientError: timeout"
    /\ adapters[1].status = CONNECTED
    /\ adapters[1].metrics.messages_sent = 0 /\ adapters[1].metrics.bytes_sent = 0
    /\ adapters[1].metrics.errors = 1
    /\ adapters[1].metrics.reconnect_attempts = 1

\* ============================================================ the HTTP API
\* The registry as main.py's handlers use it: the tasks of Callers create
\* and disconnect, the task "q" runs the query and send handlers
\* (get_status, get_sample, send_data, list_connections).

Querier == "q"

\* the value of a base64 alphabet character, -1 for any other character
B64Val(cp) ==
    IF cp >= 65 /\ cp <= 90 THEN cp - 65
    ELSE IF cp >= 97 /\ cp <= 122 THEN cp - 71
    ELSE IF cp >= 48 /\ cp <= 57 THEN cp + 4
    ELSE IF cp = 43 THEN 62
    ELSE IF cp = 47 THEN 63
    ELSE -1

\* the alphabet characters of q before its padding
RECURSIVE B64Symbols(_)
B64Symbols(q) ==
    IF q = <<>> \/ B64Val(Head(q)) < 0 THEN <<>>
    ELSE <<B64Val(Head(q))>> \o B64Symbols(Tail(q))

\* the bytes of the 6-bit symbols v: three per full group of four, two for
\* a last group of three, one for a last group of two
RECURSIVE B64Bytes(_)
B64Bytes(v) ==
    IF Len(v) >= 4
    THEN LET n == v[1] * 262144 + v[2] * 4096 + v[3] * 64 + v[4]
         IN  <<n \div 65536, (n \div 256) % 256, n % 256>> \o B64Bytes(SubSeq(v, 5, Len(v)))
    ELSE IF Len(v) = 3
    THEN LET n == v[1] * 4096 + v[2] * 64 + v[3]
         IN  <<n \div 1024, (n \div 4) % 256>>
    ELSE IF Len(v) = 2
    THEN <<(v[1] * 64 + v[2]) \div 16>>
    ELSE <<>>

\* send_data's decoding of request.data (code points): base64.b64decode for
\* encoding "base64" (text of alphabet characters followed by '=' padding;
\* text whose length is not a multiple of 4 has incorrect padding),
\* str.encode('utf-8') otherwise, of which only the length is kept
DecodeRequest(p) ==
    IF p.encoding = "base64"
    THEN IF Len(p.data) % 4 # 0
         THEN [ok |-> FALSE, nbytes |-> 0]
         ELSE [ok |-> TRUE, nbytes |-> Len(B64Bytes(B64Symbols(p.data)))]
    ELSE [ok |-> TRUE, nbytes |-> SumUtf8(p.data)]

\* request bodies of POST /send: "é!" as text, "aGk=" (b"hi") and "aGk"
\* (incorrect padding) as base64
ApiPayloads ==
    {[encoding |-> "utf-8", data |-> <<233, 33>>],
     [encoding |-> "base64", data |-> <<97, 71, 107, 61>>],
     [encoding |-> "base64", data |-> <<97, 71, 107>>]}

\* ids a request names: the caller-supplied id and every id the registry
\* has generated, registered or not
RequestIds == Ids \cup {Uuid4("r", i) : i \in 1..Len(adapters)}

\* get_status / get_sample, `return "Connection not found."`
NotFoundText == "Connection not found."

\* GET /status/{id}: main.get_status
GetStatus(c, id) ==
    /\ c = Querier /\ callers[c].pc = "idle"
    /\ LET cr == [IdleCaller EXCEPT !.op = "get_status"]
           res == IF id \notin DOMAIN registry
                  THEN Returned(id, 0, NotFoundText)
                  ELSE [CallStatus(adapters[registry[id]], clock)
                           EXCEPT !.id = id, !.adapter = registry[id]]
       IN  callers' = [callers EXCEPT ![c] = Finish(cr, res)]
    /\ UNCHANGED <<adapters, registry, lock, bg, uuids, clock, delivered, rx>>

\* GET /sample/{id}?n=: main.get_sample, status text, blank line, sample
GetSample(c, id, n) ==
    /\ c = Querier /\ callers[c].pc = "idle"
    /\ LET cr == [IdleCaller EXCEPT !.op = "get_sample"]
           res == IF id \notin DOMAIN registry
                  THEN Returned(id, 0, NotFoundText)
                  ELSE LET a == adapters[registry[id]]
                           st == CallStatus(a, clock)
                       IN  IF st.kind = "raise"
                           THEN [st EXCEPT !.id = id, !.adapter = registry[id]]
                           ELSE Returned(id, registry[id],
                                         st.value \o "\n\n" \o Sample(a, n))
       IN  callers' = [callers EXCEPT ![c] = [Finish(cr, res) EXCEPT !.n = n]]
    /\ UNCHANGED <<adapters, registry, lock, bg, uuids, clock, delivered, rx>>

\* a send handler that hands an unknown id to some adapter
SendTargetAny(id) ==
    IF id \in DOMAIN registry THEN registry[id]
    ELSE IF adapters # <<>> THEN 1 ELSE 0

\* send_data, `adapter = await registry.get_adapter(connection_id)`: the
\* instance the id is bound to, 0 for None
SendTarget(id) == IF id \in DOMAIN registry THEN registry[id] ELSE 0

\* POST /send/{id}: main.send_data up to the transport write.  Unknown id:
\* HTTPException 404.  Undecodable data: the `except Exception` branch
\* answers success=False.  adapter.send refuses (not CONNECTED, or a closed
\* WebSocket after the error path): ConnectionError, answered as 503.
SendData(c, id, p) ==
    /\ c = Querier /\ callers[c].pc = "idle"
    /\ LET i == SendTarget(id)
           d == DecodeRequest(p)
           cr == [IdleCaller EXCEPT !.op = "send_data", !.id = id, !.adapter = i,
                                    !.nbytes = d.nbytes]
       IN  IF i = 0
           THEN /\ callers' = [callers EXCEPT
                     ![c] = Finish(cr, [Raised("HTTPException", "404 Connection not found")
                                           EXCEPT !.id = id])]
                /\ UNCHANGED adapters
           ELSE IF ~d.ok
           THEN /\ callers' = [callers EXCEPT
                     ![c] = Finish(cr, Returned(id, i, "success=False: Incorrect padding"))]
                /\ UNCHANGED adapters
           ELSE IF IsNotConnected(adapters[i])
           THEN /\ callers' = [callers EXCEPT
                     ![c] = Finish(cr, [Raised("HTTPException",
                                "503 Not connected (status: " \o adapters[i].status \o ")")
                                           EXCEPT !.id = id, !.adapter = i])]
                /\ UNCHANGED adapters
           ELSE IF adapters[i].config.name = "rest" /\ adapters[i].config.use_websocket
                   /\ ~adapters[i].session_open
           THEN /\ callers' = [callers EXCEPT
                     ![c] = Finish(cr, [Raised("HTTPException", "503 WebSocket is closed")
                                           EXCEPT !.id = id, !.adapter = i])]
                /\ adapters' = [adapters EXCEPT ![i] = HandleError(@)]
           ELSE /\ adapters[i].metrics.messages_sent + adapters[i].metrics.errors < MaxSends
                /\ callers' = [callers EXCEPT ![c] = [cr EXCEPT !.pc = "write"]]
                /\ UNCHANGED adapters
    /\ UNCHANGED <<registry, lock, bg, uuids, clock, delivered, rx>>

\* send_data after adapter.send returned: SendResponse(success=True)
SendDataDone(c) ==
    /\ callers[c].pc = "write" /\ callers[c].op = "send_data"
    /\ adapters' = [adapters EXCEPT
                      ![callers[c].adapter] = SendCounted(@, callers[c].nbytes)]
    /\ callers' = [callers EXCEPT
          ![c] = Finish(callers[c],
                        Returned(callers[c].id, callers[c].adapter,
                                 "success=True bytes_sent=" \o ToString(callers[c].nbytes)))]
    /\ UNCHANGED <<registry, lock, bg, uuids, clock, delivered, rx>>

\* send_data after adapter.send raised e from the transport write: the
\* adapter's error path ran, the handler answers SendResponse(success=False)
SendDataFails(c, e) ==
    /\ callers[c].pc = "write" /\ callers[c].op = "send_data"
    /\ adapters' = [adapters EXCEPT ![callers[c].adapter] = HandleError(@)]
    /\ callers' = [callers EXCEPT
          ![c] = Finish(callers[c],
                        Returned(callers[c].id, callers[c].adapter, "success=False: " \o e))]
    /\ UNCHANGED <<registry, lock, bg, uuids, clock, delivered, rx>>

\* the counters list_connections copies into an entry
ListedCounters ==
    {"messages_sent", "messages_received", "bytes_sent", "bytes_received", "errors"}

\* an entry that reports the counters of a fresh adapter
ListEntryFresh(a) ==
    [type |-> a.config.name, status |-> a.status,
     metrics |-> [k \in ListedCounters |-> 0]]

\* list_connections: the entry built for one adapter
ListEntry(a) ==
    [type |-> a.config.name, status |-> a.status,
     metrics |-> [k \in ListedCounters |-> a.metrics[k]]]

\* GET /connections: registry.list_connections, which has no await and so
\* runs in one step
ListConnections(c) ==
    /\ c = Querier /\ callers[c].pc = "idle"
    /\ callers' = [callers EXCEPT
          ![c] = [Finish([IdleCaller EXCEPT !.op = "list_connections"],
                         Returned(None, 0, "dict"))
                  EXCEPT !.listing = [id \in DOMAIN registry |->
                                         ListEntry(adapters[registry[id]])],
                         !.snapshot = registry]]
    /\ UNCHANGED <<adapters, registry, lock, bg, uuids, clock, delivered, rx>>

\* The task behind POST /connect calls create_connection with a
\* configuration its constructor accepts and lines up for the lock.
ApiCreateCall(c) ==
    /\ c = Driver /\ callers[c].pc = "idle"
    /\ Len(adapters) < MaxAdapters
    /\ \E cfg \in RegistryConfigs, id \in {None} \cup Ids :
          LET cr == [IdleCaller EXCEPT !.op = "create", !.type = cfg.name,
                                       !.config = cfg, !.id = id]
          IN  /\ callers' = [callers EXCEPT ![c] = [cr EXCEPT !.pc = "lock"]]
              /\ lock' = [lock EXCEPT !.waiters = Append(@, c)]
              /\ UNCHANGED <<adapters, registry, bg, uuids, clock, delivered, rx>>

\* The task behind DELETE /disconnect calls registry.disconnect for a
\* registered id, gracefully, and lines up for the lock.
ApiDisconnectCall(c) ==
    /\ c = Driver /\ callers[c].pc = "idle"
    /\ \E id \in DOMAIN registry :
          LET cr == [IdleCaller EXCEPT !.op = "disconnect", !.id = id]
          IN  /\ callers' = [callers EXCEPT ![c] = [cr EXCEPT !.pc = "lock"]]
              /\ lock' = [lock EXCEPT !.waiters = Append(@, c)]
              /\ UNCHANGED <<adapters, registry, bg, uuids, clock, delivered, rx>>

InitApi ==
    /\ adapters = <<>>
    /\ registry = EmptyMap
    /\ lock = Released(<<>>)
    /\ callers = [c \in Callers \cup {Querier} |-> IdleCaller]
    /\ bg = <<>>
    /\ uuids = 0
    /\ clock = 0
    /\ delivered = <<>>
    /\ rx = IdleRx

NextApi ==
    \/ \E c \in Callers : ApiCreateCall(c)
    \/ \E c \in Callers : LockAcquired(c)
    \/ \E c \in Callers : HandshakeSucceeds(c)
    \/ \E c \in Callers : HandshakeFails(c, "refused")
    \/ \E c \in Callers : SleepDone(c)
    \/ \E c \in Callers : ApiDisconnectCall(c)
    \/ \E c \in Callers : TransportClosed(c)
    \/ \E c \in Callers : GatherDone(c)
    \/ \E t \in 1..MaxAdapters : TaskEnds(t)
    \/ \E id \in RequestIds : GetStatus(Querier, id)
    \/ \E id \in RequestIds, n \in LifeSampleLimits : GetSample(Querier, id, n)
    \/ \E id \in RequestIds, p \in ApiPayloads : SendData(Querier, id, p)
    \/ SendDataDone(Querier)
    \/ SendDataFails(Querier, "timeout")
    \/ ListConnections(Querier)

SpecApi == InitApi /\ [][NextApi]_vars

\* ------------------------------------------------------ the API: claims

\* the querier starts a handler in this step
QueryStep ==
    callers[Querier].pc = "idle" /\ callers'[Querier] # callers[Querier]

\* the id the handler started in this step was called with
QueriedId ==
    IF callers'[Querier].pc = "write" THEN callers'[Querier].id
    ELSE callers'[Querier].result.id

\* C21: for an id that is not registered, get_status and get_sample return
\* the sentinel "Connection not found." without raising, send_data reports
\* not found (HTTP 404) without invoking any adapter, and none of the three
\* changes the registry, an adapter, a task or another caller.
C21_UnknownIdQueries ==
    [][(/\ QueryStep
        /\ callers'[Querier].op \in {"get_status", "get_sample", "send_data"}
        /\ QueriedId \notin DOMAIN registry) =>
           /\ callers'[Querier].pc = "idle"
           /\ callers'[Querier].op \in {"get_status", "get_sample"} =>
                 /\ callers'[Querier].result.kind = "return"
                 /\ callers'[Querier].result.value = "Connection not found."
           /\ callers'[Querier].op = "send_data" =>
                 /\ callers'[Querier].result.kind = "raise"
                 /\ callers'[Querier].result.value = "HTTPException: 404 Connection not found"
           /\ callers'[Querier].result.adapter = 0
           /\ adapters' = adapters /\ registry' = registry
           /\ bg' = bg /\ lock' = lock
           /\ \A c \in Callers : callers'[c] = callers[c]]_vars

\* a send for a generated-looking id that is not registered was answered
\* with not found while an adapter is registered and connected
C21_Witness ==
    /\ callers[Querier].pc = "idle" /\ callers[Querier].op = "send_data"
    /\ callers[Querier].result.value = "HTTPException: 404 Connection not found"
    /\ callers[Querier].result.id \notin Ids
    /\ callers[Querier].result.id \notin DOMAIN registry
    /\ \E id \in DOMAIN registry : adapters[registry[id]].status = CONNECTED

\* C25: list_connections returns exactly one entry per id that is in the
\* registry map at the moment of the call, each entry carrying that
\* adapter's transport type, its current status and the current values of
\* the counters it lists, and the call changes neither the map nor any
\* adapter, task or other caller.
C25_ListConnectionsSnapshot ==
    [][(QueryStep /\ callers'[Querier].op = "list_connections") =>
           LET listing == callers'[Querier].listing
           IN  /\ callers'[Querier].pc = "idle"
               /\ callers'[Querier].result.kind = "return"
               /\ DOMAIN listing = DOMAIN registry
               /\ \A id \in DOMAIN registry :
                     LET a == adapters[registry[id]]
                     IN  /\ listing[id].type = a.config.name
                         /\ listing[id].type \in ADAPTER_TYPES
                         /\ listing[id].status = a.status
                         /\ DOMAIN listing[id].metrics \subseteq Counters
                         /\ \A k \in DOMAIN listing[id].metrics :
                               listing[id].metrics[k] = a.metrics[k]
                         /\ {"messages_sent", "messages_received", "bytes_sent",
                             "bytes_received", "errors"} \subseteq DOMAIN listing[id].metrics
               /\ adapters' = adapters /\ registry' = registry
               /\ bg' = bg /\ lock' = lock
               /\ \A c \in Callers : callers'[c] = callers[c]]_vars

\* a listing of two registered adapters of different transports, one that
\* has sent a message and one that has counted a failed send, taken while
\* the map still holds exactly those two ids
C25_Witness ==
    LET listing == callers[Querier].listing
    IN  /\ callers[Querier].op = "list_connections" /\ callers[Querier].pc = "idle"
        /\ Cardinality(DOMAIN listing) = 2
        /\ DOMAIN listing = DOMAIN registry
        /\ \E id1, id2 \in DOMAIN listing :
              /\ listing[id1].type = "mqtt" /\ listing[id2].type = "rest"
              /\ listing[id1].metrics.messages_sent = 1
              /\ listing[id1].metrics.bytes_sent > 0
              /\ listing[id2].metrics.errors = 1

\* ================================================================ cleanup
\* AdapterRegistry.cleanup as the lifespan handler calls it at shutdown:
\* the task "m" calls cleanup, asyncio.gather runs one registry.disconnect
\* per id as the tasks "k1", "k2"; the task "c1" creates and disconnects
\* on behalf of requests that are still being served.

Manager == "m"
Children == [j \in 1..MaxAdapters |-> "k" \o ToString(j)]
CleanupTasks == Callers \cup {Manager} \cup {Children[j] : j \in 1..Len(Children)}

\* create_connection calls that have begun and not returned
CreatesInFlight ==
    Cardinality({c \in DOMAIN callers : callers[c].op = "create" /\ callers[c].pc # "idle"})

\* the orders in which a dict with the keys of m can list them
KeyOrders(m) ==
    {q \in [1..Cardinality(DOMAIN m) -> DOMAIN m] :
        \A j1, j2 \in DOMAIN q : q[j1] = q[j2] => j1 = j2}

\* a cleanup that skips the last id of its list
SpawnAllButLast(ids, j) == j < Len(ids)

\* cleanup, `for conn_id in list(self._adapters.keys())`: the j-th child
\* task exists iff the list has a j-th id
Spawn(ids, j) == j <= Len(ids)

\* cleanup() up to `await asyncio.gather(*tasks, return_exceptions=True)`:
\* one disconnect coroutine per id of the map, wrapped in a task each;
\* without ids cleanup returns at once
CleanupCall(c) ==
    /\ c = Manager /\ callers[c].pc = "idle"
    /\ \A j \in 1..Len(Children) : callers[Children[j]].pc = "idle"
    /\ LET cr == [IdleCaller EXCEPT !.op = "cleanup", !.snapshot = registry,
                                    !.born = Len(adapters),
                                    !.creates0 = CreatesInFlight]
       IN  IF registry = EmptyMap
           THEN callers' = [callers EXCEPT
                              ![c] = [Finish(cr, Returned(None, 0, None))
                                        EXCEPT !.snapshot = registry,
                                               !.born = cr.born,
                                               !.creates0 = cr.creates0]]
           ELSE \E ids \in KeyOrders(registry) :
                   callers' = [t \in DOMAIN callers |->
                      IF t = c THEN [cr EXCEPT !.pc = "gather_all"]
                      ELSE IF \E j \in 1..Len(Children) : Children[j] = t /\ Spawn(ids, j)
                      THEN LET j == CHOOSE j \in 1..Len(Children) : Children[j] = t
                           IN  [IdleCaller EXCEPT !.op = "disconnect", !.id = ids[j],
                                                  !.pc = "spawned", !.attempt = j]
                      ELSE IF \E j \in 1..Len(Children) : Children[j] = t
                      THEN IdleCaller
                      ELSE callers[t]]
    /\ UNCHANGED <<adapters, registry, lock, bg, uuids, clock, delivered, rx>>

\* A child task of gather starts running registry.disconnect(id) and lines
\* up for the lock; the tasks start in the order gather created them.
ChildStarts(k) ==
    /\ callers[k].pc = "spawned"
    /\ \A j \in 1..Len(Children) :
          (j < callers[k].attempt) => callers[Children[j]].pc # "spawned"
    /\ callers' = [callers EXCEPT ![k].pc = "lock", ![k].attempt = 0]
    /\ lock' = [lock EXCEPT !.waiters = Append(@, k)]
    /\ UNCHANGED <<adapters, registry, bg, uuids, clock, delivered, rx>>

\* gather returns once every child task is done; cleanup logs and returns
CleanupReturns(c) ==
    /\ callers[c].pc = "gather_all"
    /\ \A j \in 1..Len(Children) : callers[Children[j]].pc = "idle"
    /\ callers' = [callers EXCEPT
          ![c] = [Finish(callers[c], Returned(None, 0, None))
                    EXCEPT !.snapshot = callers[c].snapshot,
                           !.born = callers[c].born,
                           !.creates0 = callers[c].creates0]]
    /\ UNCHANGED <<adapters, registry, lock, bg, uuids, clock, delivered, rx>>

InitCleanup ==
    /\ adapters = <<>>
    /\ registry = EmptyMap
    /\ lock = Released(<<>>)
    /\ callers = [c \in CleanupTasks |-> IdleCaller]
    /\ bg = <<>>
    /\ uuids = 0
    /\ clock = 0
    /\ delivered = <<>>
    /\ rx = IdleRx

NextCleanup ==
    \/ ApiCreateCall(Driver)
    \/ ApiDisconnectCall(Driver)
    \/ \E c \in CleanupTasks : LockAcquired(c)
    \/ HandshakeSucceeds(Driver)
    \/ HandshakeFails(Driver, "refused")
    \/ SleepDone(Driver)
    \/ \E c \in CleanupTasks : TransportClosed(c)
    \/ \E c \in CleanupTasks : TransportCloseFails(c)
    \/ \E c \in CleanupTasks : GatherDone(c)
    \/ \E t \in 1..MaxAdapters : TaskEnds(t)
    \/ CleanupCall(Manager)
    \/ \E j \in 1..Len(Children) : ChildStarts(Children[j])
    \/ CleanupReturns(Manager)

SpecCleanup == InitCleanup /\ [][NextCleanup]_vars

\* cleanup returns in this step
CleanupEnds ==
    /\ callers'[Manager].op = "cleanup" /\ callers'[Manager].pc = "idle"
    /\ callers'[Manager] # callers[Manager]

\* C24: cleanup runs a graceful registry.disconnect for every id that was
\* registered when it was called; a disconnect that fails neither keeps the
\* others from running nor makes cleanup raise; when cleanup returns, each
\* of those ids has been removed (it is unregistered, or bound to an
\* instance created since), and if no create was in flight at the call and
\* no instance was constructed since, the registry map is empty.
C24_CleanupRemovesAll ==
    [][CleanupEnds =>
          LET m == callers'[Manager]
          IN  /\ m.result.kind = "return"
              /\ \A id \in DOMAIN m.snapshot :
                    /\ \E j \in 1..Len(Children) :
                          LET k == callers'[Children[j]]
                          IN  /\ k.pc = "idle" /\ k.op = "disconnect" /\ ~k.force
                              /\ k.result.kind = "return" /\ k.result.id = id
                    /\ id \notin DOMAIN registry' \/ registry'[id] # m.snapshot[id]
                    /\ \A other \in DOMAIN registry' : registry'[other] # m.snapshot[id]
              /\ (m.creates0 = 0 /\ Len(adapters') = m.born) => registry' = EmptyMap]_vars

\* cleanup has returned after disconnecting two adapters, the transport
\* close of one of which failed: that adapter is still CONNECTED with its
\* session open, the other is DISCONNECTED, and the map is empty
C24_Witness ==
    LET m == callers[Manager]
    IN  /\ m.op = "cleanup" /\ m.pc = "idle" /\ m.result.kind = "return"
        /\ Cardinality(DOMAIN m.snapshot) = 2
        /\ registry = EmptyMap
        /\ \E id1, id2 \in DOMAIN m.snapshot :
              /\ adapters[m.snapshot[id1]].status = CONNECTED
              /\ adapters[m.snapshot[id1]].session_open
              /\ adapters[m.snapshot[id2]].status = DISCONNECTED
        /\ \A j \in 1..Len(Children) : callers[Children[j]].result.value = "True"

\* ================================================ the receive loops, stepwise
\* The three receive loops between their awaits, for adapters created through
\* the registry and disconnected with force=True.  A task in state "running"
\* is at its loop's `while` test; "sleep", "get" and "receive" are the awaits
\* the loops suspend in.

\* one configuration per loop: MQTT keep-alive, REST polling, WebSocket
LoopConfigs ==
    {AdapterConfig("mqtt", 1, Ratio(2, 1), 60, FALSE),
     AdapterConfig("rest", 1, Ratio(2, 1), 60, FALSE),
     AdapterConfig("rest", 1, Ratio(2, 1), 60, TRUE)}

\* what a poll request comes back with: 200 with a body, 204, another
\* status, or an exception (the session's total timeout included)
PollOutcomes == {"200", "204", "500", "raise"}

\* registry.create_connection(type, config) with a generated id
LoopCreateCall(c) ==
    /\ c = Driver /\ callers[c].pc = "idle"
    /\ Len(adapters) < MaxAdapters
    /\ \E cfg \in LoopConfigs :
          LET cr == [IdleCaller EXCEPT !.op = "create", !.type = cfg.name,
                                       !.config = cfg, !.id = None]
          IN  /\ callers' = [callers EXCEPT ![c] = [cr EXCEPT !.pc = "lock"]]
              /\ lock' = [lock EXCEPT !.waiters = Append(@, c)]
              /\ UNCHANGED <<adapters, registry, bg, uuids, clock, delivered, rx>>

\* registry.disconnect(id, force=True) for a registered id
ForcedDisconnectCall(c) ==
    /\ c = Driver /\ callers[c].pc = "idle"
    /\ \E id \in DOMAIN registry :
          LET cr == [IdleCaller EXCEPT !.op = "disconnect", !.id = id,
                                       !.force = TRUE]
          IN  /\ callers' = [callers EXCEPT ![c] = [cr EXCEPT !.pc = "lock"]]
              /\ lock' = [lock EXCEPT !.waiters = Append(@, c)]
              /\ UNCHANGED <<adapters, registry, bg, uuids, clock, delivered, rx>>

\* the await the loop body suspends in first: asyncio.sleep(1),
\* self._session.get(url), self._websocket.receive()
LoopAwait(a) ==
    IF a.config.name = "mqtt" THEN "sleep"
    ELSE IF a.config.use_websocket THEN "receive" ELSE "get"

\* the `while` test holds: the task enters the loop body and suspends
LoopEnters(t) ==
    /\ t \in DOMAIN bg
    /\ bg[t].state = "running" /\ ReceiveLoopTest(adapters[bg[t].adapter])
    /\ bg' = [bg EXCEPT ![t].state = LoopAwait(adapters[bg[t].adapter])]
    /\ UNCHANGED <<adapters, registry, lock, callers, uuids, clock, delivered, rx>>

\* asyncio.sleep returns: back to the `while` test
TimerFires(t) ==
    /\ t \in DOMAIN bg
    /\ bg[t].state = "sleep"
    /\ bg' = [bg EXCEPT ![t].state = "running"]
    /\ UNCHANGED <<adapters, registry, lock, callers, uuids, clock, delivered, rx>>

\* _polling_receive_loop after its get: a 200 with a body goes through
\* _handle_received_data, then sleep(poll_interval); an exception sleeps
\* only while _running, else the loop is back at its test
PollResponse(t, r) ==
    /\ t \in DOMAIN bg
    /\ bg[t].state = "get"
    /\ LET i == bg[t].adapter
       IN  IF r = "200"
           THEN /\ adapters[i].metrics.messages_received < MaxInbound
                /\ \E data \in LifePayloads :
                      adapters' = [adapters EXCEPT
                                     ![i] = HandleReceivedData(@, data, clock)]
                /\ clock' = clock + 2
                /\ bg' = [bg EXCEPT ![t].state = "sleep"]
           ELSE /\ bg' = [bg EXCEPT ![t].state =
                            IF r = "raise" /\ ~adapters[i].running
                            THEN "running" ELSE "sleep"]
                /\ UNCHANGED <<adapters, clock>>
    /\ UNCHANGED <<registry, lock, callers, uuids, delivered, rx>>

\* _websocket_receive_loop after receive() returned message m (a message
\* type, or "raise" for an exception): TEXT and
\* BINARY go through _handle_received_data, ERROR is logged, CLOSE breaks
\* out of the loop; an exception sleeps one second only while _running
FrameArrives(t, m) ==
    /\ t \in DOMAIN bg
    /\ bg[t].state = "receive"
    /\ LET i == bg[t].adapter
       IN  CASE m \in {"TEXT", "BINARY"} ->
                  /\ adapters[i].metrics.messages_received < MaxInbound
                  /\ \E data \in LifePayloads :
                        adapters' = [adapters EXCEPT
                                       ![i] = HandleReceivedData(@, data, clock)]
                  /\ clock' = clock + 2
                  /\ bg' = [bg EXCEPT ![t].state = "running"]
             [] m = "CLOSE" ->
                  /\ bg' = [bg EXCEPT ![t].state = "done"]
                  /\ adapters' = [adapters EXCEPT ![i].tasks = @ \ {t}]
                  /\ clock' = clock
             [] OTHER ->
                  /\ bg' = [bg EXCEPT ![t].state =
                              IF m = "raise" /\ adapters[i].running
                              THEN "sleep" ELSE "running"]
                  /\ UNCHANGED <<adapters, clock>>
    /\ UNCHANGED <<registry, lock, callers, uuids, delivered, rx>>

NextLoops ==
    \/ \E c \in Callers : LoopCreateCall(c)
    \/ \E c \in Callers : ForcedDisconnectCall(c)
    \/ \E c \in Callers : LockAcquired(c)
    \/ \E c \in Callers : HandshakeSucceeds(c)
    \/ \E t \in 1..MaxTasks : LoopEnters(t)
    \/ \E t \in 1..MaxTasks : TimerFires(t)
    \/ \E t \in 1..MaxTasks, r \in PollOutcomes : PollResponse(t, r)
    \/ \E t \in 1..MaxTasks, m \in {"TEXT", "BINARY", "ERROR", "CLOSE", "raise"} :
          FrameArrives(t, m)
    \/ \E t \in 1..MaxTasks : TaskEnds(t)

\* The event loop runs every task that is ready (the `while` test, the
\* step after a timer), timers fire, and a poll request ends (aiohttp's
\* session carries a total timeout).  Nothing obliges the WebSocket peer
\* to send a frame: receive() is awaited without a timeout.
LoopsFairness ==
    \A t \in 1..MaxTasks :
        /\ WF_vars(LoopEnters(t))
        /\ WF_vars(TaskEnds(t))
        /\ WF_vars(TimerFires(t))
        /\ WF_vars(\E r \in PollOutcomes : PollResponse(t, r))

SpecLoops == Init /\ [][NextLoops]_vars /\ LoopsFairness

ReadFaultStep(t) == PollResponse(t, "raise") \/ FrameArrives(t, "raise")

\* C31: a fault raised by a read in a receive loop increases the adapter's
\* errors counter by one, and the loop stays alive for its next read.
C31_ReadFaultCounted ==
    [][\A t \in 1..MaxTasks :
          ReadFaultStep(t) =>
             LET i == bg[t].adapter
             IN  /\ adapters'[i].metrics.errors = adapters[i].metrics.errors + 1
                 /\ bg'[t].state # "done"]_vars

StatusStep ==
    /\ callers[Sender].pc = "idle" /\ callers'[Sender] # callers[Sender]
    /\ callers'[Sender].pc = "idle" /\ callers'[Sender].op = "status"

\* C33: the status-text query changes no state and returns a text that the
\* status determines: a message rate when CONNECTED with messages received,
\* "connected, waiting for data" when CONNECTED without, the latest back-off
\* delay when RECONNECTING, the recorded fault message when ERROR,
\* "Connecting..." when CONNECTING, the stored status message when
\* DISCONNECTED.
C33_StatusText ==
    [][StatusStep =>
          LET a == adapters[1]
              r == callers'[Sender].result
          IN  /\ adapters' = adapters /\ registry' = registry /\ bg' = bg
              /\ r.kind = "return"
              /\ CASE a.status = CONNECTED /\ a.metrics.messages_received > 0 ->
                        SubSeq(r.value, 1, 14) = "OK - streaming"
                   [] a.status = CONNECTED /\ a.metrics.messages_received = 0 ->
                        r.value = "OK - connected, waiting for data"
                   [] a.status = RECONNECTING ->
                        r.value = "Connection configured but unreachable: retrying (back-off "
                                  \o FormatRounded(a.retry_delay) \o " s)."
                   [] a.status = ERROR ->
                        r.value = "Connection error: " \o a.status_message
                   [] a.status = CONNECTING -> r.value = "Connecting..."
                   [] OTHER -> r.value = a.status_message]_vars

\* ------------------------------------- the API: creates still in progress

\* C34: while a create is still connecting (handshake in flight, or asleep
\* between retries; status CONNECTING or RECONNECTING), its id is not in
\* the registry map and its instance is bound to no id; a status, sample or
\* send request for the id is answered with not found, and a listing made
\* meanwhile does not contain it.
C34_InProgressNotExposed ==
    [][\A c \in Callers :
          ConnectInProgress(c) =>
             /\ adapters[callers[c].adapter].status \in {CONNECTING, RECONNECTING}
             /\ callers[c].id \notin DOMAIN registry
             /\ \A id \in DOMAIN registry : registry[id] # callers[c].adapter
             /\ (/\ QueryStep
                 /\ callers'[Querier].op \in {"get_status", "get_sample", "send_data"}
                 /\ QueriedId = callers[c].id) =>
                    /\ callers'[Querier].pc = "idle"
                    /\ callers'[Querier].result.adapter = 0
                    /\ callers'[Querier].result.value \in
                          {"Connection not found.", "HTTPException: 404 Connection not found"}
             /\ (QueryStep /\ callers'[Querier].op = "list_connections") =>
                    callers[c].id \notin DOMAIN callers'[Querier].listing]_vars

\* a create with a generated id is asleep between two connect attempts,
\* and a status request for that id has been answered with not found
C34_Witness ==
    /\ callers[Driver].op = "create" /\ callers[Driver].pc = "sleep"
    /\ callers[Driver].id = Uuid4("r", 1)
    /\ adapters[1].status = RECONNECTING
    /\ callers[Querier].op = "get_status" /\ callers[Querier].pc = "idle"
    /\ callers[Querier].result.id = Uuid4("r", 1)
    /\ callers[Querier].result.value = "Connection not found."

\* ================================== MQTT: inbound messages and disconnect
\* One MQTT adapter with a message handler installed.  gmqtt calls
\* _on_message_received for each inbound message, which hands the payload
\* to _handle_received_data in a task of its own (asyncio.create_task,
\* kept in no set); rx follows that task.  The driver connects and
\* disconnects the adapter meanwhile.

InitMessages ==
    /\ adapters \in
         {<<[NewAdapter(AdapterConfig("mqtt", 1, Ratio(2, 1), 60, FALSE))
               EXCEPT !.on_message = "on_message", !.on_error = h]>> :
            h \in {None, "on_error"}}
    /\ registry = EmptyMap
    /\ lock = Released(<<>>)
    /\ callers = [c \in Callers |-> IdleCaller]
    /\ bg = <<>>
    /\ uuids = 0
    /\ clock = 0
    /\ delivered = <<>>
    /\ rx = IdleRx

NextMessages ==
    \/ \E c \in Callers : ConnectDirect(c)
    \/ \E c \in Callers : HandshakeSucceeds(c)
    \/ \E c \in Callers : HandshakeFails(c, "refused")
    \/ \E c \in Callers : DisconnectDirect(c)
    \/ \E c \in Callers : TransportClosed(c)
    \/ \E c \in Callers : GatherDone(c)
    \/ \E t \in 1..MaxTasks : TaskEnds(t)
    \/ \E data \in LifePayloads :
          /\ adapters[1].session_open
          /\ adapters[1].tasks # {}
          /\ Receive(data)
    \/ MessageHandlerReturns
    \/ \E e \in HandlerFaults : MessageHandlerRaises(e)
    \/ \E raised \in BOOLEAN : ErrorHandlerEnds(raised)

SpecMessages == InitMessages /\ [][NextMessages]_vars

\* the driver's graceful adapter.disconnect() has returned and the driver
\* starts no other call in this step
RestsDisconnected ==
    /\ callers[Driver].pc = "idle" /\ callers[Driver].op = "adapter_disconnect"
    /\ callers[Driver].result.kind = "return"
    /\ callers'[Driver] = callers[Driver]

\* C35: once a graceful disconnect of an adapter has returned, no step
\* changes the adapter's metrics or its sample buffer (until the adapter is
\* connected again): inbound-data processing begun before the disconnect
\* does not go on after it.
C35_QuietAfterDisconnect ==
    [][RestsDisconnected =>
          /\ adapters'[1].metrics = adapters[1].metrics
          /\ adapters'[1].sample_buffer = adapters[1].sample_buffer]_vars

\* ===================================== the registry, one connection id
\* The registry operations of SpecApi and SpecLoops with every create
\* called for the one caller-supplied id of Ids, so that every adapter
\* instance constructed is one made for that id: creates (which resume
\* while the id is registered), graceful and forced disconnects, transport
\* closes that succeed or raise.

NextSameId ==
    \/ \E c \in Callers : ApiCreateCall(c) /\ callers'[c].id \in Ids
    \/ \E c \in Callers : LockAcquired(c)
    \/ \E c \in Callers : HandshakeSucceeds(c)
    \/ \E c \in Callers : HandshakeFails(c, "refused")
    \/ \E c \in Callers : SleepDone(c)
    \/ \E c \in Callers : ApiDisconnectCall(c)
    \/ \E c \in Callers : ForcedDisconnectCall(c)
    \/ \E c \in Callers : TransportClosed(c)
    \/ \E c \in Callers : TransportCloseFails(c)
    \/ \E c \in Callers : GatherDone(c)
    \/ \E t \in 1..MaxAdapters : TaskEnds(t)

SpecSameId == Init /\ [][NextSameId]_vars

\* C36: at any time at most one of the adapters made for a connection id
\* has a background receive task that has not finished.
C36_OneRunningPerId ==
    Cardinality({bg[t].adapter : t \in {u \in DOMAIN bg : bg[u].state # "done"}}) <= 1

\* ------------------------------------- retry executor: any attempt limit

\* caller c's direct call of the retry executor ends in this step
ExecutorEnds(c) ==
    /\ callers'[c].op = "retry" /\ callers'[c].pc = "idle"
    /\ callers'[c] # callers[c]

\* C37: whatever retry_max_attempts is, a call of the retry executor has
\* invoked the operation at least once when it ends, and it returns
\* normally only if an invocation returned normally (more invocations than
\* faults); otherwise it raises.
C37_ExecutorInvokesOnce ==
    [][\A c \in Callers :
          ExecutorEnds(c) =>
             /\ callers'[c].invocations >= 1
             /\ callers'[c].result.kind \in {"return", "raise"}
             /\ callers'[c].result.kind = "return" =>
                   callers'[c].invocations > Len(callers'[c].faults)]_vars

\* ========================================= the registry lock: progress
\* The registry with shutdown cleanup (SpecCleanup), the driver's creates
\* now also with an unknown adapter type or a configuration its class
\* rejects, under fair scheduling.

NextGuard ==
    \/ NextCleanup
    \/ CreateCall(Driver)

\* The event loop runs every task that is ready (a task first in line for
\* the free lock, a spawned child, gather's waiter), and every awaited
\* operation of an adapter ends: a handshake returns or raises, a retry
\* sleep is over, a transport close returns or raises, a cancelled task
\* finishes.
GuardFairness ==
    /\ \A c \in CleanupTasks :
          /\ WF_vars(LockAcquired(c))
          /\ WF_vars(HandshakeSucceeds(c) \/ HandshakeFails(c, "refused"))
          /\ WF_vars(SleepDone(c))
          /\ WF_vars(TransportClosed(c) \/ TransportCloseFails(c))
          /\ WF_vars(GatherDone(c))
          /\ WF_vars(ChildStarts(c))
    /\ \A t \in 1..MaxAdapters : WF_vars(TaskEnds(t))
    /\ WF_vars(CleanupReturns(Manager))

SpecGuard == InitCleanup /\ [][NextGuard]_vars /\ GuardFairness

\* C38: the lock is never held by a task that is outside the guarded body
\* of create_connection or disconnect (so every exit, by return or by
\* exception, has released it); every task waiting for the lock eventually
\* acquires it; and a cleanup that has started its disconnects eventually
\* returns.
C38_GuardReleased ==
    /\ [](\A c \in CleanupTasks :
             callers[c].pc \in {"idle", "lock", "spawned", "gather_all"}
                => lock.holder # c)
    /\ \A c \in CleanupTasks : (callers[c].pc = "lock") ~> (callers[c].pc # "lock")
    /\ (callers[Manager].pc = "gather_all") ~> (callers[Manager].pc = "idle")

\* cleanup has returned after disconnecting an adapter, the lock is free,
\* and the driver's latest create left with an exception
C38_Witness ==
    /\ callers[Manager].op = "cleanup" /\ callers[Manager].pc = "idle"
    /\ callers[Manager].snapshot # EmptyMap
    /\ callers[Manager].born < Len(adapters)
    /\ lock.holder = NoCaller /\ lock.waiters = <<>>
    /\ callers[Driver].op = "create" /\ callers[Driver].pc = "idle"
    /\ callers[Driver].result.kind = "raise"
    /\ callers[Driver].result.value = "ConnectionError: refused"

\* --------------------------------------------- the registry map: changes

\* caller c's create_connection returns a newly connected adapter in this
\* step
CreateSucceedsStep(c) ==
    /\ callers[c].op = "create" /\ callers[c].pc # "idle"
    /\ callers'[c].pc = "idle" /\ callers'[c].result.kind = "return"
    /\ callers'[c].result.value = "created"

\* caller c's registry.disconnect of a registered id returns in this step
DisconnectEndsStep(c) ==
    /\ callers[c].op = "disconnect" /\ callers[c].pc # "idle"
    /\ callers'[c].pc = "idle" /\ callers[c].id \in DOMAIN registry

C40_BufferLength ==
    /\ [](\A i \in DOMAIN adapters :
            Len(adapters[i].sample_buffer) =
               Min(adapters[i].metrics.messages_received, SampleBufferSize))
    /\ [][\A i \in DOMAIN adapters :
            LET buf == adapters[i].sample_buffer
                new == adapters'[i].sample_buffer
                n   == adapters[i].metrics.messages_received
            IN  IF adapters'[i].metrics.messages_received = n
                THEN new = buf
                ELSE /\ adapters'[i].metrics.messages_received = n + 1
                     /\ Len(delivered') = Len(delivered) + 1
                     /\ new # <<>>
                     /\ new[Len(new)] =
                           Entry(delivered'[Len(delivered')][2],
                                 Decode(delivered'[Len(delivered')][1]))
                     /\ SubSeq(new, 1, Len(new) - 1) =
                           SubSeq(buf, Len(buf) - Len(new) + 2, Len(buf))]_vars

\* the adapter was connected twice and is disconnected again: more messages
\* were counted than the buffer holds, and the buffer is full
C40_Witness ==
    /\ Len(bg) = 2
    /\ adapters[1].status = DISCONNECTED /\ ~adapters[1].running
    /\ adapters[1].metrics.messages_received > SampleBufferSize
    /\ Len(adapters[1].sample_buffer) = SampleBufferSize
    /\ rx.pc = "idle"

====
